---- MODULE Spec2Model ----
(***************************************************************************)
(* Ownership graph store, ownership traversal, access control and lease    *)
(* tenancy validation of the property management server                    *)
(* (server routes: src/unnamed/part_010, storage: src/unnamed/part_011,    *)
(* role helpers: src/server/auth.ts, tables: src/shared/schema.ts).        *)
(*                                                                         *)
(* Units.  ownershipPercentage is numeric(5,2); the model keeps it as an   *)
(* integer number of hundredths of a percent (6000 = 60.00%).  Dates are   *)
(* day ordinals 1..MaxDate.  NULL is the SQL null / JS undefined.          *)
(***************************************************************************)
EXTENDS Integers, Sequences, FiniteSets, TLC

----------------------------------------------------------------------------
(* Bounds *)

MaxRel == 2

MaxDate == 3

MaxLeaseTenants == 2

MaxEdges == 3

MaxAccessEdges == 2

MaxLeases == 2

----------------------------------------------------------------------------
(* Fixed universe *)

NULL == "null"

Orgs == {"o1", "o2"}

Companies == {"A", "B", "C", "X"}

\* companies.organizationId (schema.ts:28)
CompanyOrg == [c \in Companies |-> IF c = "X" THEN "o2" ELSE "o1"]

UserIds == {"admin1", "user1", "broker1", "admin2"}

Roles == {"admin", "user", "broker"}

\* ownershipPercentage values a request may carry, in hundredths of a percent.
\* 0 and 10001 are out of range; 806 + 915 + 8279 = 10000 exactly.
PctInputs == {0, 806, 915, 8279, 10001}

VARIABLES relations, leaseTenants, users, properties, leases, trav, resp

vars == <<relations, leaseTenants, users, properties, leases, trav, resp>>

----------------------------------------------------------------------------
(* Helpers over sets *)

RECURSIVE SumOver(_, _)
SumOver(S, f) ==
  IF S = {} THEN 0
  ELSE LET x == CHOOSE y \in S : TRUE
       IN f[x] + SumOver(S \ {x}, f)

Max(S) == CHOOSE x \in S : \A y \in S : y <= x

----------------------------------------------------------------------------
(* Users and role gates (src/server/auth.ts) *)

\* createUser: dashboardViewMode = role === "admin" ? "total" : "weighted"
createUserViewMode(role) == IF role = "admin" THEN "total" ELSE "weighted"

DefaultUsers ==
  [u \in UserIds |->
     LET role == CASE u = "admin1" -> "admin"
                   [] u = "admin2" -> "admin"
                   [] u = "user1" -> "user"
                   [] OTHER -> "broker"
     IN [role |-> role,
         organizationId |-> IF u = "admin2" THEN "o2" ELSE "o1",
         assignedCompanyId |-> IF u = "user1" THEN "A" ELSE NULL,
         dashboardViewMode |-> createUserViewMode(role)]]

canWrite(user) == user.role = "admin" \/ user.role = "user"

isBroker(user) == user.role = "broker"

----------------------------------------------------------------------------
(* Ownership graph store: company_relations *)

NoResp == [op |-> "none", status |-> 0]

\* storage.getParentRelations(companyId): relations whose child is companyId
getParentRelations(rels, companyId) ==
  {r \in rels : r.childCompanyId = companyId}

\* getChildRelations filtering on the wrong column (that of getParentRelations)
getChildRelations_WrongColumn(rels, companyId) ==
  {r \in rels : r.childCompanyId = companyId}

\* storage.getChildRelations(companyId): relations whose parent is companyId
getChildRelations(rels, companyId) ==
  {r \in rels : r.parentCompanyId = companyId}

\* getCompany without the organization filter
getCompany_AnyOrg(id, organizationId) ==
  IF id \in Companies THEN id ELSE NULL

\* storage.getCompany(id, organizationId): found iff the company is of that org
getCompany(id, organizationId) ==
  IF id \in Companies /\ CompanyOrg[id] = organizationId THEN id ELSE NULL

PctOf(rels) == [r \in rels |-> r.ownershipPercentage]

\* The exact decimal sum of the incoming percentages of a company.
IncomingSum(rels, companyId) ==
  SumOver(getParentRelations(rels, companyId), PctOf(rels))

\* currentTotalPercentage and newTotalPercentage are IEEE-754 doubles:
\* reduce((sum, rel) => sum + parseFloat(rel.ownershipPercentage), 0) and
\* currentTotalPercentage + parseFloat(ownershipPercentage).  Over the
\* percentages of PctInputs the double sum equals the decimal sum except
\* for the operand combinations below, where (in either order of the
\* existing rows) the double sum is 100.00000000000001 although the decimal
\* sum is exactly 100.00:  (8.06 + 82.79) + 9.15  and  (9.15 + 82.79) + 8.06.
DoubleSumRoundsUp(existing, pct) ==
  LET ps == {r.ownershipPercentage : r \in existing}
  IN /\ Cardinality(existing) = 2
     /\ \/ ps = {806, 8279} /\ pct = 915
        \/ ps = {915, 8279} /\ pct = 806

\* if (newTotalPercentage > 100)
newTotalExceeds100(rels, childCompanyId, pct) ==
  LET existing == getParentRelations(rels, childCompanyId)
  IN \/ IncomingSum(rels, childCompanyId) + pct > 10000
     \/ DoubleSumRoundsUp(existing, pct)

\* Number.prototype.toFixed(1) of a double close to h hundredths: the nearest
\* tenth; when h ends in 5 the direction depends on which side of the decimal
\* the double lies, so both neighbours are possible outcomes.
toFixed1(h) == {(h + 4) \div 10, (h + 5) \div 10}

FreeRelIds(rels) == (1..MaxRel) \ {r.id : r \in rels}

\* POST /api/company-relations with a check that rejects an edge closing a
\* cycle (parent equal to child, or the reverse edge already stored)
PostCompanyRelation_RejectsCycle(u, parentCompanyId, childCompanyId, pct) ==
  LET user == users[u]
      E == IncomingSum(relations, childCompanyId)
      closesCycle ==
        \/ parentCompanyId = childCompanyId
        \/ \E r \in relations : /\ r.parentCompanyId = childCompanyId
                                /\ r.childCompanyId = parentCompanyId
  IN
  /\ UNCHANGED <<leaseTenants, users, properties, leases, trav>>
  /\ IF ~canWrite(user)
     THEN /\ resp' = [op |-> "POST relation", status |-> 403]
          /\ UNCHANGED relations
     ELSE IF pct < 1 \/ pct > 10000
     THEN /\ resp' = [op |-> "POST relation", status |-> 400]
          /\ UNCHANGED relations
     ELSE IF getCompany(parentCompanyId, user.organizationId) = NULL
             \/ getCompany(childCompanyId, user.organizationId) = NULL
     THEN /\ resp' = [op |-> "POST relation", status |-> 404]
          /\ UNCHANGED relations
     ELSE IF closesCycle \/ newTotalExceeds100(relations, childCompanyId, pct)
     THEN /\ \E tot \in toFixed1(E + pct), cur \in toFixed1(E) :
               resp' = [op |-> "POST relation", status |-> 400,
                        newTotal |-> tot, currentTotal |-> cur]
          /\ UNCHANGED relations
     ELSE /\ FreeRelIds(relations) # {}
          /\ LET id == CHOOSE i \in FreeRelIds(relations) : TRUE
             IN relations' = relations \cup
                  {[id |-> id,
                    parentCompanyId |-> parentCompanyId,
                    childCompanyId |-> childCompanyId,
                    ownershipPercentage |-> pct]}
          /\ resp' = [op |-> "POST relation", status |-> 200]

\* POST /api/company-relations (requireWriteAccess)
PostCompanyRelation(u, parentCompanyId, childCompanyId, pct) ==
  LET user == users[u]
      E == IncomingSum(relations, childCompanyId)
  IN
  /\ UNCHANGED <<leaseTenants, users, properties, leases, trav>>
  /\ IF ~canWrite(user)
     THEN /\ resp' = [op |-> "POST relation", status |-> 403]
          /\ UNCHANGED relations
     ELSE IF pct < 1 \/ pct > 10000
     THEN /\ resp' = [op |-> "POST relation", status |-> 400]
          /\ UNCHANGED relations
     ELSE IF getCompany(parentCompanyId, user.organizationId) = NULL
             \/ getCompany(childCompanyId, user.organizationId) = NULL
     THEN /\ resp' = [op |-> "POST relation", status |-> 404]
          /\ UNCHANGED relations
     ELSE IF newTotalExceeds100(relations, childCompanyId, pct)
     THEN /\ \E tot \in toFixed1(E + pct), cur \in toFixed1(E) :
               resp' = [op |-> "POST relation", status |-> 400,
                        newTotal |-> tot, currentTotal |-> cur]
          /\ UNCHANGED relations
     ELSE /\ FreeRelIds(relations) # {}
          /\ LET id == CHOOSE i \in FreeRelIds(relations) : TRUE
             IN relations' = relations \cup
                  {[id |-> id,
                    parentCompanyId |-> parentCompanyId,
                    childCompanyId |-> childCompanyId,
                    ownershipPercentage |-> pct]}
          /\ resp' = [op |-> "POST relation", status |-> 200]

\* storage.updateCompanyRelation(id, {ownershipPercentage}): UPDATE ... WHERE id
updateCompanyRelation(rels, id, pct) ==
  {IF r.id = id THEN [r EXCEPT !.ownershipPercentage = pct] ELSE r : r \in rels}

\* PUT /api/company-relations/:id (requireWriteAccess)
PutCompanyRelation(u, id, pct) ==
  LET user == users[u]
  IN
  /\ UNCHANGED <<leaseTenants, users, properties, leases, trav>>
  /\ IF ~canWrite(user)
     THEN /\ resp' = [op |-> "PUT relation", status |-> 403]
          /\ UNCHANGED relations
     ELSE IF pct = 0 \/ pct < 1 \/ pct > 10000
     THEN /\ resp' = [op |-> "PUT relation", status |-> 400]
          /\ UNCHANGED relations
     ELSE /\ relations' = updateCompanyRelation(relations, id, pct)
          /\ resp' = [op |-> "PUT relation", status |-> 200]

\* storage.deleteCompanyRelation(id): DELETE ... WHERE id
deleteCompanyRelation(rels, id) == {r \in rels : r.id # id}

\* DELETE /api/company-relations/:id (requireWriteAccess)
DeleteCompanyRelation(u, id) ==
  LET user == users[u]
  IN
  /\ UNCHANGED <<leaseTenants, users, properties, leases, trav>>
  /\ IF ~canWrite(user)
     THEN /\ resp' = [op |-> "DELETE relation", status |-> 403]
          /\ UNCHANGED relations
     ELSE /\ relations' = deleteCompanyRelation(relations, id)
          /\ resp' = [op |-> "DELETE relation", status |-> 200]

NoTrav == [status |-> "idle"]

\* The companies the relation requests name
RelCompanies == {"A", "B", "X"}

InitRel ==
  /\ relations = {}
  /\ leaseTenants = {}
  /\ users = DefaultUsers
  /\ properties = {}
  /\ leases = {}
  /\ trav = NoTrav
  /\ resp = NoResp

NextRel ==
  \/ \E u \in UserIds, p \in RelCompanies, c \in RelCompanies,
        pct \in PctInputs :
       PostCompanyRelation(u, p, c, pct)
  \/ \E u \in UserIds, id \in 1..MaxRel, pct \in PctInputs :
       PutCompanyRelation(u, id, pct)
  \/ \E u \in UserIds, id \in 1..MaxRel :
       DeleteCompanyRelation(u, id)

SpecRel == InitRel /\ [][NextRel]_vars

----------------------------------------------------------------------------
(* Lease tenancy period validator: lease_tenants *)

\* new Date('2099-12-31'), the stand-in for a null periodEnd, as a day ordinal
Date2099 == 2

\* a null periodEnd (lease_tenants.period_end is nullable)
NullDate == 0

Dates == 1..MaxDate

LeaseIds == {"L1", "L2"}

\* leases.organizationId of the leases the tenancy requests name
LeaseOrg == [l \in LeaseIds |-> "o1"]

\* The users that issue tenancy requests
TenancyUsers == {"admin1", "broker1", "admin2"}

\* storage.getLease(id, organizationId)
getLease(id, organizationId) ==
  IF id \in LeaseIds /\ LeaseOrg[id] = organizationId THEN id ELSE NULL

\* insertLeaseTenantSchema .refine: periodEnd, when given, is not before
\* periodStart
insertLeaseTenantSchemaOk(periodStart, periodEnd) ==
  periodEnd # NullDate => periodEnd >= periodStart

\* the stand-in for a null periodEnd taken one day before 2099-12-31
endOrDate2099_Earlier(periodEnd) ==
  IF periodEnd = NullDate THEN Date2099 - 1 ELSE periodEnd

\* (existingEnd || new Date('2099-12-31'))
endOrDate2099(periodEnd) == IF periodEnd = NullDate THEN Date2099 ELSE periodEnd

\* startOverlap && endOverlap of createLeaseTenant
periodsOverlap(newStart, newEnd, existing) ==
  /\ newStart <= endOrDate2099(existing.periodEnd)
  /\ endOrDate2099(newEnd) >= existing.periodStart

\* new Date() is an instant of day today.day; a date column is the midnight
\* that begins its day, so  date <= today  compares days and  date >= today
\* holds for a later day, or for the same day at exactly midnight.
dateLEnow(d, today) == d <= today.day

dateGEnow(d, today) == d > today.day \/ (d = today.day /\ today.midnight)

\* start <= today && (!end || end >= today)
isCurrentContract(periodStart, periodEnd, today) ==
  /\ dateLEnow(periodStart, today)
  /\ (periodEnd = NullDate \/ dateGEnow(periodEnd, today))

\* storage.createLeaseTenant: "ok", or the error it throws
createLeaseTenantCheck(lts, leaseId, newStart, newEnd, today) ==
  LET existingTenants == {t \in lts : t.leaseId = leaseId}
  IN IF \E existing \in existingTenants :
          periodsOverlap(newStart, newEnd, existing)
     THEN "overlap"
     ELSE IF /\ isCurrentContract(newStart, newEnd, today)
             /\ \E t \in existingTenants :
                  isCurrentContract(t.periodStart, t.periodEnd, today)
     THEN "active"
     ELSE "ok"

FreeLeaseTenantIds(lts) == (1..MaxLeaseTenants) \ {t.id : t \in lts}

\* POST /api/lease-tenants (requireWriteAccess; the first handler registered
\* for the path) with storage.createLeaseTenant
PostLeaseTenant(u, leaseId, periodStart, periodEnd, today) ==
  LET user == users[u]
      check == createLeaseTenantCheck(leaseTenants, leaseId, periodStart,
                                      periodEnd, today)
  IN
  /\ UNCHANGED <<relations, users, properties, leases, trav>>
  /\ IF ~canWrite(user)
     THEN /\ resp' = [op |-> "POST lease-tenant", status |-> 403,
                      error |-> "role"]
          /\ UNCHANGED leaseTenants
     ELSE IF ~insertLeaseTenantSchemaOk(periodStart, periodEnd)
     THEN /\ resp' = [op |-> "POST lease-tenant", status |-> 400,
                      error |-> "validation"]
          /\ UNCHANGED leaseTenants
     ELSE IF getLease(leaseId, user.organizationId) = NULL
     THEN /\ resp' = [op |-> "POST lease-tenant", status |-> 404,
                      error |-> "notfound"]
          /\ UNCHANGED leaseTenants
     ELSE IF check # "ok"
     THEN /\ resp' = [op |-> "POST lease-tenant", status |-> 400,
                      error |-> check]
          /\ UNCHANGED leaseTenants
     ELSE /\ FreeLeaseTenantIds(leaseTenants) # {}
          /\ LET id == CHOOSE i \in FreeLeaseTenantIds(leaseTenants) : TRUE
             IN leaseTenants' = leaseTenants \cup
                  {[id |-> id,
                    leaseId |-> leaseId,
                    periodStart |-> periodStart,
                    periodEnd |-> periodEnd,
                    organizationId |-> user.organizationId]}
          /\ resp' = [op |-> "POST lease-tenant", status |-> 200,
                      error |-> "none"]

\* storage.updateLeaseTenant: UPDATE ... SET updates WHERE id AND organizationId
updateLeaseTenant(lts, id, organizationId, leaseId, periodStart, periodEnd) ==
  {IF t.id = id /\ t.organizationId = organizationId
   THEN [t EXCEPT !.leaseId = leaseId,
                  !.periodStart = periodStart,
                  !.periodEnd = periodEnd]
   ELSE t : t \in lts}

\* PATCH /api/lease-tenants/:id (requireAuth)
PatchLeaseTenant(u, id, leaseId, periodStart, periodEnd) ==
  LET user == users[u]
  IN
  /\ UNCHANGED <<relations, users, properties, leases, trav>>
  /\ IF ~insertLeaseTenantSchemaOk(periodStart, periodEnd)
     THEN /\ resp' = [op |-> "PATCH lease-tenant", status |-> 400,
                      error |-> "validation"]
          /\ UNCHANGED leaseTenants
     ELSE IF ~\E t \in leaseTenants :
                t.id = id /\ t.organizationId = user.organizationId
     THEN /\ resp' = [op |-> "PATCH lease-tenant", status |-> 500,
                      error |-> "notfound"]
          /\ UNCHANGED leaseTenants
     ELSE /\ leaseTenants' = updateLeaseTenant(leaseTenants, id,
                               user.organizationId, leaseId, periodStart,
                               periodEnd)
          /\ resp' = [op |-> "PATCH lease-tenant", status |-> 200,
                      error |-> "none"]

\* storage.deleteLeaseTenant: DELETE ... WHERE id AND organizationId
deleteLeaseTenant(lts, id, organizationId) ==
  {t \in lts : ~(t.id = id /\ t.organizationId = organizationId)}

\* DELETE /api/lease-tenants/:id (requireWriteAccess; the first handler
\* registered for the path)
DeleteLeaseTenant(u, id) ==
  LET user == users[u]
  IN
  /\ UNCHANGED <<relations, users, properties, leases, trav>>
  /\ IF ~canWrite(user)
     THEN /\ resp' = [op |-> "DELETE lease-tenant", status |-> 403,
                      error |-> "role"]
          /\ UNCHANGED leaseTenants
     ELSE IF deleteLeaseTenant(leaseTenants, id, user.organizationId)
               = leaseTenants
     THEN /\ resp' = [op |-> "DELETE lease-tenant", status |-> 500,
                      error |-> "notfound"]
          /\ UNCHANGED leaseTenants
     ELSE /\ leaseTenants' = deleteLeaseTenant(leaseTenants, id,
                                               user.organizationId)
          /\ resp' = [op |-> "DELETE lease-tenant", status |-> 200,
                      error |-> "none"]

Todays == [day : Dates, midnight : BOOLEAN]

InitLT ==
  /\ relations = {}
  /\ leaseTenants = {}
  /\ users = DefaultUsers
  /\ properties = {}
  /\ leases = {}
  /\ trav = NoTrav
  /\ resp = NoResp

NextLT ==
  \/ \E u \in TenancyUsers, l \in LeaseIds, s \in Dates,
        e \in Dates \cup {NullDate}, today \in Todays :
       PostLeaseTenant(u, l, s, e, today)
  \/ \E u \in TenancyUsers, id \in 1..MaxLeaseTenants, l \in LeaseIds,
        s \in Dates, e \in Dates \cup {NullDate} :
       PatchLeaseTenant(u, id, l, s, e)
  \/ \E u \in TenancyUsers, id \in 1..MaxLeaseTenants :
       DeleteLeaseTenant(u, id)

SpecLT == InitLT /\ [][NextLT]_vars

----------------------------------------------------------------------------
(* Ownership traversal engine: getAccessibleCompanyIds *)

\* currentOwnership is a double: 100 at the root, then
\* (currentOwnership * parseFloat(ownershipPercentage)) / 100 per edge.  The
\* model keeps it as the sequence of the percentages multiplied so far, the
\* value being 100 * product(p / 10000); the product of positive doubles is
\* positive (an underflow to 0 needs more than 80 nested edges of 0.01%).
rootOwnership == <<>>

childOwnership(currentOwnership, pct) == Append(currentOwnership, pct)

\* currentOwnership > 0 taken as true at the root only
ownershipPositive_RootOnly(currentOwnership) == currentOwnership = <<>>

\* currentOwnership > 0
ownershipPositive(currentOwnership) ==
  \A i \in DOMAIN currentOwnership : currentOwnership[i] > 0

\* The rows of getChildRelations(companyId) in the order the database
\* returns them; ord is the row order of the whole table (a sequence of ids).
RECURSIVE childRelationsSeq(_, _, _)
childRelationsSeq(rels, ord, companyId) ==
  IF ord = <<>> THEN <<>>
  ELSE LET here == {r \in rels : r.id = Head(ord) /\ r.parentCompanyId = companyId}
           rest == childRelationsSeq(rels, Tail(ord), companyId)
       IN IF here = {} THEN rest
          ELSE <<CHOOSE r \in here : TRUE>> \o rest

\* traverseOwnership(currentCompanyId, currentOwnership) with the two sets it
\* closes over passed as st, and the for loop over childRelations as
\* traverseChildren.
RECURSIVE traverseOwnership(_, _, _, _, _)
RECURSIVE traverseChildren(_, _, _, _, _)
traverseOwnership(rels, ord, currentCompanyId, currentOwnership, st) ==
  IF currentCompanyId \in st.visitedCompanies
  THEN st
  ELSE LET st1 ==
             [visitedCompanies |-> st.visitedCompanies \cup {currentCompanyId},
              accessibleCompanies |->
                IF ownershipPositive(currentOwnership)
                THEN st.accessibleCompanies \cup {currentCompanyId}
                ELSE st.accessibleCompanies]
       IN traverseChildren(rels, ord,
                           childRelationsSeq(rels, ord, currentCompanyId),
                           currentOwnership, st1)

traverseChildren(rels, ord, childRelations, currentOwnership, st) ==
  IF childRelations = <<>> THEN st
  ELSE LET relation == Head(childRelations)
           st1 == traverseOwnership(rels, ord, relation.childCompanyId,
                    childOwnership(currentOwnership,
                                   relation.ownershipPercentage), st)
       IN traverseChildren(rels, ord, Tail(childRelations),
                           currentOwnership, st1)

\* storage.getAccessibleCompanyIds(companyId)
getAccessibleCompanyIds(rels, ord, companyId) ==
  traverseOwnership(rels, ord, companyId, rootOwnership,
                    [visitedCompanies |-> {}, accessibleCompanies |-> {}]
                   ).accessibleCompanies

\* The row orders of a table: the permutations of its ids.
RowOrders(rels) ==
  LET ids == {r.id : r \in rels}
      n == Cardinality(ids)
  IN {o \in [1..n -> ids] : \A i, j \in 1..n : i # j => o[i] # o[j]}

----------------------------------------------------------------------------
(* Relation graphs the store can hold *)

GraphCompanies == <<"A", "B", "C">>

\* the percentage of the relations of the graphs below (50.00%)
GraphPcts == {5000}

NumPairs == Len(GraphCompanies) * Len(GraphCompanies)

\* Edge k of 1..NumPairs is the pair (parent, child) number k.
PairParent(k) == GraphCompanies[((k - 1) \div Len(GraphCompanies)) + 1]

PairChild(k) == GraphCompanies[((k - 1) % Len(GraphCompanies)) + 1]

\* A graph is a choice, per relation id, of no row (0) or of a pair; the ids
\* are given in pair order, which loses no graph up to the naming of ids.
GraphChoicesOf(n) ==
  {g \in [1..n -> 0..NumPairs] :
     \A i, j \in 1..n : i < j => g[i] <= g[j]}

GraphChoices == GraphChoicesOf(MaxEdges)

GraphRelations(g, pct) ==
  {[id |-> i,
    parentCompanyId |-> PairParent(g[i]),
    childCompanyId |-> PairChild(g[i]),
    ownershipPercentage |-> pct[i]] : i \in {k \in DOMAIN g : g[k] # 0}}

----------------------------------------------------------------------------
(* getAccessibleCompanyIds step by step: one call of traverseOwnership is a
   frame; the rows of childRelations are taken in any order *)

TravDepthCap == Len(GraphCompanies) + 2

\* const traverseOwnership = async (currentCompanyId, currentOwnership = 100)
CallFrame(companyId, ownership) ==
  [pc |-> "enter", companyId |-> companyId, ownership |-> ownership,
   childRelations |-> {}]

\* await traverseOwnership(companyId) from getAccessibleCompanyIds
StartTraversal(root) ==
  /\ trav.status = "idle"
  /\ trav' = [status |-> "running",
              root |-> root,
              stack |-> <<CallFrame(root, rootOwnership)>>,
              visitedCompanies |-> {},
              accessibleCompanies |-> {},
              expanded |-> [c \in Companies |-> 0],
              revisits |-> 0,
              result |-> {}]
  /\ UNCHANGED <<relations, leaseTenants, users, properties, leases, resp>>

Top(stack) == stack[Len(stack)]

Pop(stack) == SubSeq(stack, 1, Len(stack) - 1)

\* Leaving a frame: back to the caller's loop, or, from the outermost frame,
\* return Array.from(accessibleCompanies)
AfterReturn(t) ==
  IF Len(t.stack) = 1
  THEN [t EXCEPT !.stack = <<>>, !.status = "done",
                 !.result = t.accessibleCompanies]
  ELSE [t EXCEPT !.stack = Pop(t.stack)]

\* traverseOwnership without its visited check
hasVisited_Never(t, companyId) == FALSE

\* if (visitedCompanies.has(currentCompanyId))
hasVisited(t, companyId) == companyId \in t.visitedCompanies

\* if (visitedCompanies.has(currentCompanyId)) return;
TraverseRevisit ==
  /\ trav.status = "running"
  /\ Top(trav.stack).pc = "enter"
  /\ hasVisited(trav, Top(trav.stack).companyId)
  /\ trav' = [AfterReturn(trav) EXCEPT
                !.revisits = IF trav.revisits < 1 THEN 1 ELSE trav.revisits]
  /\ UNCHANGED <<relations, leaseTenants, users, properties, leases, resp>>

\* visitedCompanies.add; accessibleCompanies.add when the ownership is
\* positive; childRelations = await getChildRelations(currentCompanyId)
TraverseExpand ==
  /\ trav.status = "running"
  /\ Top(trav.stack).pc = "enter"
  /\ ~hasVisited(trav, Top(trav.stack).companyId)
  /\ LET f == Top(trav.stack)
         n == Len(trav.stack)
     IN trav' = [trav EXCEPT
          !.visitedCompanies = @ \cup {f.companyId},
          !.accessibleCompanies =
             IF ownershipPositive(f.ownership) THEN @ \cup {f.companyId} ELSE @,
          !.expanded[f.companyId] = @ + 1,
          !.stack[n] = [f EXCEPT !.pc = "loop",
                          !.childRelations =
                             getChildRelations(relations, f.companyId)]]
  /\ UNCHANGED <<relations, leaseTenants, users, properties, leases, resp>>

\* for (const relation of childRelations) await traverseOwnership(child, ...)
TraverseChild ==
  /\ trav.status = "running"
  /\ Top(trav.stack).pc = "loop"
  /\ Len(trav.stack) < TravDepthCap
  /\ \E relation \in Top(trav.stack).childRelations :
       LET f == Top(trav.stack)
           n == Len(trav.stack)
       IN trav' = [trav EXCEPT
            !.stack = Append(
               [trav.stack EXCEPT ![n].childRelations = @ \ {relation}],
               CallFrame(relation.childCompanyId,
                         childOwnership(f.ownership,
                                        relation.ownershipPercentage)))]
  /\ UNCHANGED <<relations, leaseTenants, users, properties, leases, resp>>

\* the end of the for loop: the call returns
TraverseReturn ==
  /\ trav.status = "running"
  /\ Top(trav.stack).pc = "loop"
  /\ Top(trav.stack).childRelations = {}
  /\ trav' = AfterReturn(trav)
  /\ UNCHANGED <<relations, leaseTenants, users, properties, leases, resp>>

InitTrav ==
  /\ \E g \in GraphChoices, pct \in [1..MaxEdges -> GraphPcts] :
       relations = GraphRelations(g, pct)
  /\ leaseTenants = {}
  /\ users = DefaultUsers
  /\ properties = {}
  /\ leases = {}
  /\ trav = NoTrav
  /\ resp = NoResp

TravStep == TraverseRevisit \/ TraverseExpand \/ TraverseChild \/ TraverseReturn

NextTrav ==
  \/ \E root \in Companies : StartTraversal(root)
  \/ TraverseRevisit
  \/ TraverseExpand
  \/ TraverseChild
  \/ TraverseReturn

SpecTrav == InitTrav /\ [][NextTrav]_vars /\ WF_vars(TravStep)

----------------------------------------------------------------------------
(* Properties, leases and the reads that list them *)

PropertyIds == {"P1", "P3"}

\* The users that issue read requests, and those that issue write requests
AccessReaders == {"user1", "admin1"}

AccessWriters == {"user1", "broker1"}

\* storage.getUser(userId)
getUser(us, userId) == us[userId]

\* A response of the read and write routes below: the properties and the
\* leases its body carries (a lease carries its joined property)
AccessResp(op, u, status, props, ls) ==
  [op |-> op, user |-> u, status |-> status, properties |-> props,
   leases |-> ls]

\* The property rows joined to a set of lease rows
joinedProperties(props, ls) ==
  {p \in props : \E l \in ls : l.propertyId = p.id}

\* storage.getProperties(organizationId, userId); userId is NULL for the
\* admin and broker call.  inArray(ownerCompanyId, ...) is never true of a
\* null ownerCompanyId.
getProperties(props, us, rels, ord, organizationId, userId) ==
  IF userId = NULL
  THEN {p \in props : p.organizationId = organizationId}
  ELSE IF getUser(us, userId).assignedCompanyId = NULL
  THEN {}
  ELSE LET accessibleCompanyIds ==
             getAccessibleCompanyIds(rels, ord,
                                     getUser(us, userId).assignedCompanyId)
       IN IF accessibleCompanyIds = {}
          THEN {}
          ELSE {p \in props : /\ p.organizationId = organizationId
                              /\ p.ownerCompanyId # NULL
                              /\ p.ownerCompanyId \in accessibleCompanyIds}

\* storage.getProperty(id, organizationId): the row, when it is of that
\* organization
getProperty(props, id, organizationId) ==
  {p \in props : p.id = id /\ p.organizationId = organizationId}

\* getLeases with the company filter reduced to the assigned company and the
\* companies it owns directly
getLeases_DirectOnly(ls, props, us, rels, ord, organizationId, userId) ==
  IF userId = NULL
  THEN {l \in ls : /\ l.organizationId = organizationId
                   /\ \E p \in props : p.id = l.propertyId}
  ELSE IF getUser(us, userId).assignedCompanyId = NULL
  THEN {}
  ELSE LET root == getUser(us, userId).assignedCompanyId
           direct == {root} \cup
                     {r.childCompanyId : r \in getChildRelations(rels, root)}
       IN {l \in ls :
             /\ l.organizationId = organizationId
             /\ \E p \in props : /\ p.id = l.propertyId
                                 /\ p.ownerCompanyId # NULL
                                 /\ p.ownerCompanyId \in direct}

\* storage.getLeases(organizationId, userId): leases inner-joined to their
\* property, filtered on leases.organizationId and, for a userId, on the
\* property's ownerCompanyId
getLeases(ls, props, us, rels, ord, organizationId, userId) ==
  IF userId = NULL
  THEN {l \in ls : /\ l.organizationId = organizationId
                   /\ \E p \in props : p.id = l.propertyId}
  ELSE IF getUser(us, userId).assignedCompanyId = NULL
  THEN {}
  ELSE LET accessibleCompanyIds ==
             getAccessibleCompanyIds(rels, ord,
                                     getUser(us, userId).assignedCompanyId)
       IN IF accessibleCompanyIds = {}
          THEN {}
          ELSE {l \in ls :
                  /\ l.organizationId = organizationId
                  /\ \E p \in props : /\ p.id = l.propertyId
                                      /\ p.ownerCompanyId # NULL
                                      /\ p.ownerCompanyId \in accessibleCompanyIds}

\* storage.getLeasesByProperty(propertyId, organizationId)
getLeasesByProperty(ls, propertyId, organizationId) ==
  {l \in ls : l.propertyId = propertyId /\ l.organizationId = organizationId}

\* storage.getLease(id, organizationId) with the joined property: the row
getLeaseRow(ls, id, organizationId) ==
  {l \in ls : l.id = id /\ l.organizationId = organizationId}

\* desc(properties.acquisitionDate): p may stand before q.  acquisitionDate
\* is nullable and the database puts nulls first in a descending order.
sqlDescBefore(p, q) ==
  \/ p.acquisitionDate = NullDate
  \/ q.acquisitionDate # NullDate /\ q.acquisitionDate <= p.acquisitionDate

\* The rows that can come first under ORDER BY acquisitionDate DESC
latestByAcquisitionDate(props) ==
  {p \in props : \A q \in props : sqlDescBefore(p, q)}

\* acquisitionDate ? new Date(acquisitionDate).getTime() : 0, in days since
\* 1970-01-01 (negative before it)
getTime(acquisitionDate) ==
  IF acquisitionDate = NullDate THEN 0 ELSE acquisitionDate

\* The rows that can come first after allProperties.sort((a, b) => dateB -
\* dateA): the sort is stable and the query it sorts has no ORDER BY
firstBySortedDate(props) ==
  {p \in props :
     \A q \in props : getTime(q.acquisitionDate) <= getTime(p.acquisitionDate)}

\* storage.getPropertyStats(organizationId).latestProperty: the rows the
\* query with LIMIT 1 can return (none: latestProperty is null)
getPropertyStats(props, organizationId) ==
  latestByAcquisitionDate({p \in props : p.organizationId = organizationId})

\* The limit of GET /api/dashboard/recent
RecentLimit == 5

\* storage.getRecentProperties(organizationId, limit): the results the query
\* can return, the first limit rows by acquisitionDate descending
getRecentProperties(props, organizationId, limit) ==
  LET rows == {p \in props : p.organizationId = organizationId}
  IN IF Cardinality(rows) <= limit
     THEN {rows}
     ELSE {S \in SUBSET rows :
             /\ Cardinality(S) = limit
             /\ \A p \in S, q \in rows \ S : sqlDescBefore(p, q)}

\* The relations both weighted computations read: those whose parent
\* company is of the organization
allRelationsOf(rels, organizationId) ==
  {r \in rels : CompanyOrg[r.parentCompanyId] = organizationId}

\* The value of a calculateOwnershipFromRoot call whose recursion does not end
Diverges == -1

\* calculateOwnershipFromRoot that adds the direct relations only
calculateOwnershipFromRoot_DirectOnly(rootCompanyId, targetCompanyId, rels, depth) ==
  IF rootCompanyId = targetCompanyId THEN 10000
  ELSE SumOver({r \in rels : /\ r.parentCompanyId = rootCompanyId
                             /\ r.childCompanyId = targetCompanyId},
               [r \in rels |-> r.ownershipPercentage])

\* calculateOwnershipFromRoot without its first test
calculateOwnershipFromRoot_NoSelfCase(rootCompanyId, targetCompanyId, rels, depth) ==
  SumOver({r \in rels : /\ r.parentCompanyId = rootCompanyId
                        /\ r.childCompanyId = targetCompanyId},
          [r \in rels |-> r.ownershipPercentage])

\* calculateOwnershipFromRoot that gives up on a chain that repeats a company
RECURSIVE calculateOwnershipFromRoot_CycleCut(_, _, _, _)
calculateOwnershipFromRoot_CycleCut(rootCompanyId, targetCompanyId, rels, depth) ==
  IF rootCompanyId = targetCompanyId THEN 10000
  ELSE IF depth > Cardinality(Companies) THEN 0
  ELSE LET directRelations == {r \in rels : r.parentCompanyId = rootCompanyId}
       IN SumOver(directRelations,
            [r \in directRelations |->
               IF r.childCompanyId = targetCompanyId
               THEN r.ownershipPercentage
               ELSE (r.ownershipPercentage *
                       calculateOwnershipFromRoot_CycleCut(r.childCompanyId,
                         targetCompanyId, rels, depth + 1)) \div 10000])

\* storage.calculateOwnershipFromRoot(rootCompanyId, targetCompanyId,
\* relations) in units of 1/10000 (1.0 is 10000).  The recursion has no
\* visited set; a chain of calls longer than the number of companies repeats
\* a company and so never ends: depth counts the chain.
RECURSIVE calculateOwnershipFromRoot(_, _, _, _)
calculateOwnershipFromRoot(rootCompanyId, targetCompanyId, rels, depth) ==
  IF rootCompanyId = targetCompanyId THEN 10000
  ELSE IF depth > Cardinality(Companies) THEN Diverges
  ELSE LET directRelations == {r \in rels : r.parentCompanyId = rootCompanyId}
           term ==
             [r \in directRelations |->
                IF r.childCompanyId = targetCompanyId
                THEN r.ownershipPercentage
                ELSE LET indirectOwnership ==
                           calculateOwnershipFromRoot(r.childCompanyId,
                             targetCompanyId, rels, depth + 1)
                     IN IF indirectOwnership = Diverges THEN Diverges
                        ELSE (r.ownershipPercentage * indirectOwnership)
                               \div 10000]
       IN IF \E r \in directRelations : term[r] = Diverges THEN Diverges
          ELSE SumOver(directRelations, term)

\* ownershipWeight that counts the direct relations only
ownershipWeight_Direct(p, rels, rootCompanyId) ==
  calculateOwnershipFromRoot_DirectOnly(rootCompanyId, p.ownerCompanyId,
    allRelationsOf(rels, p.organizationId), 0)

\* ownershipWeight that gives every owner company the full weight
ownershipWeight_Full(p, rels, rootCompanyId) == 10000

\* ownershipWeight of a property for the user's root company
ownershipWeight(p, rels, rootCompanyId) ==
  calculateOwnershipFromRoot(rootCompanyId, p.ownerCompanyId,
                             allRelationsOf(rels, p.organizationId), 0)

\* The rows of the organization that have an owner company
withOwnerCompany(props, organizationId) ==
  {p \in props : p.organizationId = organizationId /\ p.ownerCompanyId # NULL}

\* Whether a weighted computation overflows the stack: it computes the
\* weight of every row that has an owner company
weightedDiverges(props, rels, organizationId, rootCompanyId) ==
  \E p \in withOwnerCompany(props, organizationId) :
     ownershipWeight(p, rels, rootCompanyId) = Diverges

\* storage.calculateWeightedStats(organizationId, userId).latestProperty:
\* the rows it can be (none: null)
calculateWeightedStats(props, us, rels, organizationId, userId) ==
  IF getUser(us, userId).assignedCompanyId = NULL
  THEN getPropertyStats(props, organizationId)
  ELSE firstBySortedDate(
         {p \in withOwnerCompany(props, organizationId) :
            ownershipWeight(p, rels, getUser(us, userId).assignedCompanyId) > 0})

\* storage.getRecentPropertiesWeighted(organizationId, userId, limit): the
\* results it can return
getRecentPropertiesWeighted(props, us, rels, organizationId, userId, limit) ==
  IF getUser(us, userId).assignedCompanyId = NULL
  THEN {{}}
  ELSE LET rows ==
             {p \in withOwnerCompany(props, organizationId) :
                ownershipWeight(p, rels,
                                getUser(us, userId).assignedCompanyId) > 0}
       IN IF Cardinality(rows) <= limit
          THEN {rows}
          ELSE {S \in SUBSET rows :
                  /\ Cardinality(S) = limit
                  /\ \A p \in S, q \in rows \ S : sqlDescBefore(p, q)}

\* Math.round(x * 100) / 100 of a value in units of 1/10000, in hundredths
roundToHundredths(x) == (x + 50) \div 100

\* Math.round(x) of a value in units of 1/10000
roundToUnits(x) == (x + 5000) \div 10000

\* storage.getPropertyStats(organizationId): count, totalValue and leaseStats
\* of the result, the two counts in hundredths
getPropertyStatsTotals(props, ls, us, rels, organizationId) ==
  LET rows == {p \in props : p.organizationId = organizationId}
      allLeases == getLeases(ls, props, us, rels, <<>>, organizationId, NULL)
  IN [count |-> Cardinality(rows) * 100,
      totalValue |-> SumOver(rows, [p \in rows |-> p.acquisitionPrice]),
      leaseCount |-> Cardinality(allLeases) * 100,
      totalRentCapacity |->
        SumOver(allLeases, [l \in allLeases |-> l.totalArea])]

\* calculateWeightedStats: totalWeightedCount, totalWeightedValue,
\* totalWeightedLeaseCount and totalWeightedArea after the loops, in units of
\* 1/10000
weightedSums(props, ls, us, rels, ord, organizationId, userId) ==
  LET rootCompanyId == getUser(us, userId).assignedCompanyId
      rows == withOwnerCompany(props, organizationId)
      weight == [p \in rows |-> ownershipWeight(p, rels, rootCompanyId)]
      allLeases == getLeases(ls, props, us, rels, ord, organizationId, userId)
      counted == {l \in allLeases :
                    \E p \in rows : p.id = l.propertyId /\ weight[p] > 0}
      leaseWeight == [l \in counted |->
                        weight[CHOOSE p \in rows : p.id = l.propertyId]]
  IN [count |-> SumOver(rows, weight),
      value |-> SumOver(rows, [p \in rows |-> p.acquisitionPrice * weight[p]]),
      leaseCount |-> SumOver(counted, leaseWeight),
      area |-> SumOver(counted,
                       [l \in counted |-> l.totalArea * leaseWeight[l]])]

\* The sums of a request that computes none
NoSums == [count |-> 0, value |-> 0, leaseCount |-> 0, area |-> 0]

\* calculateWeightedTotals without the fallback for a user without company
calculateWeightedTotals_NoFallback(props, ls, us, rels, ord, organizationId, userId) ==
  LET sums == weightedSums(props, ls, us, rels, ord, organizationId, userId)
  IN [count |-> roundToHundredths(sums.count),
      totalValue |-> roundToUnits(sums.value),
      leaseCount |-> roundToHundredths(sums.leaseCount),
      totalRentCapacity |-> roundToUnits(sums.area)]

\* storage.calculateWeightedStats(organizationId, userId): count, totalValue
\* and leaseStats of the result
calculateWeightedTotals(props, ls, us, rels, ord, organizationId, userId) ==
  IF getUser(us, userId).assignedCompanyId = NULL
  THEN getPropertyStatsTotals(props, ls, us, rels, organizationId)
  ELSE LET sums == weightedSums(props, ls, us, rels, ord, organizationId,
                                userId)
       IN [count |-> roundToHundredths(sums.count),
           totalValue |-> roundToUnits(sums.value),
           leaseCount |-> roundToHundredths(sums.leaseCount),
           totalRentCapacity |-> roundToUnits(sums.area)]

\* The body of GET /api/dashboard/stats: latestProperty (a set, empty for
\* null) and the totals; sums are the weighted sums before rounding
StatsResp(u, status, latestProperty, stats, sums) ==
  [op |-> "GET /api/dashboard/stats", user |-> u, status |-> status,
   properties |-> latestProperty, leases |-> {}, stats |-> stats,
   sums |-> sums]

----------------------------------------------------------------------------
(* Read routes, and the writes that change what they read *)

\* const userId = (role === 'admin' || role === 'broker') ? undefined : user.id
listUserId(us, u) ==
  IF getUser(us, u).role = "admin" \/ getUser(us, u).role = "broker"
  THEN NULL ELSE u

\* GET /api/properties
GetProperties(u) ==
  /\ \E ord \in RowOrders(relations) :
       resp' = AccessResp("GET /api/properties", u, 200,
                 getProperties(properties, users, relations, ord,
                               getUser(users, u).organizationId,
                               listUserId(users, u)),
                 {})
  /\ UNCHANGED <<relations, leaseTenants, users, properties, leases, trav>>

\* GET /api/properties/:id
GetPropertyById(u, id) ==
  /\ LET property ==
           getProperty(properties, id, getUser(users, u).organizationId)
     IN resp' = AccessResp("GET /api/properties/:id", u,
                           IF property = {} THEN 404 ELSE 200, property, {})
  /\ UNCHANGED <<relations, leaseTenants, users, properties, leases, trav>>

\* GET /api/properties/:id/leases
GetPropertyLeases(u, id) ==
  /\ LET ls == getLeasesByProperty(leases, id,
                                   getUser(users, u).organizationId)
     IN resp' = AccessResp("GET /api/properties/:id/leases", u, 200,
                           joinedProperties(properties, ls), ls)
  /\ UNCHANGED <<relations, leaseTenants, users, properties, leases, trav>>

\* GET /api/leases
GetLeases(u) ==
  /\ \E ord \in RowOrders(relations) :
       LET ls == getLeases(leases, properties, users, relations, ord,
                           getUser(users, u).organizationId,
                           listUserId(users, u))
       IN resp' = AccessResp("GET /api/leases", u, 200,
                             joinedProperties(properties, ls), ls)
  /\ UNCHANGED <<relations, leaseTenants, users, properties, leases, trav>>

\* GET /api/leases/:id
GetLeaseById(u, id) ==
  /\ LET lease == getLeaseRow(leases, id, getUser(users, u).organizationId)
     IN resp' = AccessResp("GET /api/leases/:id", u,
                           IF lease = {} THEN 404 ELSE 200,
                           joinedProperties(properties, lease), lease)
  /\ UNCHANGED <<relations, leaseTenants, users, properties, leases, trav>>

\* GET /api/dashboard/stats
GetDashboardStats(u) ==
  /\ LET user == getUser(users, u)
         isWeighted == user.dashboardViewMode = "weighted"
         throws == /\ isWeighted
                   /\ user.assignedCompanyId # NULL
                   /\ weightedDiverges(properties, relations,
                        user.organizationId, user.assignedCompanyId)
         latest == IF isWeighted
                   THEN calculateWeightedStats(properties, users, relations,
                                               user.organizationId, u)
                   ELSE getPropertyStats(properties, user.organizationId)
     IN IF throws
        THEN resp' = StatsResp(u, 500, {}, NoSums, NoSums)
        ELSE \E ord \in RowOrders(relations),
                latestProperty \in
                  (IF latest = {} THEN {{}} ELSE {{p} : p \in latest}) :
               resp' = StatsResp(u, 200, latestProperty,
                 IF isWeighted
                 THEN calculateWeightedTotals(properties, leases, users,
                        relations, ord, user.organizationId, u)
                 ELSE getPropertyStatsTotals(properties, leases, users,
                        relations, user.organizationId),
                 IF isWeighted /\ user.assignedCompanyId # NULL
                 THEN weightedSums(properties, leases, users, relations, ord,
                                   user.organizationId, u)
                 ELSE NoSums)
  /\ UNCHANGED <<relations, leaseTenants, users, properties, leases, trav>>

\* GET /api/dashboard/recent
GetDashboardRecent(u) ==
  /\ LET user == getUser(users, u)
         isWeighted == user.dashboardViewMode = "weighted"
         filtered == isWeighted /\ user.role = "user"
         throws == /\ filtered
                   /\ user.assignedCompanyId # NULL
                   /\ weightedDiverges(properties, relations,
                        user.organizationId, user.assignedCompanyId)
     IN IF throws
        THEN resp' = AccessResp("GET /api/dashboard/recent", u, 500, {}, {})
        ELSE \E recentProperties \in
                  (IF filtered
                   THEN getRecentPropertiesWeighted(properties, users,
                          relations, user.organizationId, u, RecentLimit)
                   ELSE getRecentProperties(properties, user.organizationId,
                                            RecentLimit)) :
               resp' = AccessResp("GET /api/dashboard/recent", u, 200,
                                  recentProperties, {})
  /\ UNCHANGED <<relations, leaseTenants, users, properties, leases, trav>>

\* storage.updateUserPreferences(userId, {dashboardViewMode})
updateUserPreferences(us, userId, dashboardViewMode) ==
  [us EXCEPT ![userId].dashboardViewMode = dashboardViewMode]

\* PUT /api/user/preferences (requireAuth only)
PutUserPreferences(u, dashboardViewMode) ==
  /\ IF dashboardViewMode \notin {"total", "weighted"}
     THEN /\ resp' = AccessResp("PUT /api/user/preferences", u, 400, {}, {})
          /\ UNCHANGED users
     ELSE /\ users' = updateUserPreferences(users, u, dashboardViewMode)
          /\ resp' = AccessResp("PUT /api/user/preferences", u, 200, {}, {})
  /\ UNCHANGED <<relations, leaseTenants, properties, leases, trav>>

\* storage.updateProperty(id, organizationId, updates): the UPDATE names the
\* row by id alone; the organization is compared afterwards, on the row
\* returned
updateProperty(props, id, ownerCompanyId) ==
  {IF p.id = id THEN [p EXCEPT !.ownerCompanyId = ownerCompanyId] ELSE p :
     p \in props}

\* PUT /api/properties/:id with a body that sets ownerCompanyId
PutProperty(u, id, ownerCompanyId) ==
  /\ IF ~canWrite(getUser(users, u))
     THEN /\ resp' = AccessResp("PUT /api/properties/:id", u, 403, {}, {})
          /\ UNCHANGED properties
     ELSE /\ properties' = updateProperty(properties, id, ownerCompanyId)
          /\ resp' = AccessResp("PUT /api/properties/:id", u,
                       IF \E p \in properties :
                            /\ p.id = id
                            /\ p.organizationId =
                                 getUser(users, u).organizationId
                       THEN 200 ELSE 400, {}, {})
  /\ UNCHANGED <<relations, leaseTenants, users, leases, trav>>

FreeLeaseIds(ls) == {i \in 1..MaxLeases : i \notin {l.id : l \in ls}}

\* POST /api/leases: storage.createLease({...parsed, organizationId}); the
\* foreign key wants the property to exist, nothing compares its organization
PostLease(u, propertyId) ==
  /\ IF ~canWrite(getUser(users, u))
     THEN /\ resp' = AccessResp("POST /api/leases", u, 403, {}, {})
          /\ UNCHANGED leases
     ELSE IF \A p \in properties : p.id # propertyId
     THEN /\ resp' = AccessResp("POST /api/leases", u, 400, {}, {})
          /\ UNCHANGED leases
     ELSE /\ FreeLeaseIds(leases) # {}
          /\ leases' = leases \cup
               {[id |-> CHOOSE i \in FreeLeaseIds(leases) :
                          \A j \in FreeLeaseIds(leases) : i <= j,
                 propertyId |-> propertyId,
                 organizationId |-> getUser(users, u).organizationId,
                 totalArea |-> 60]}
          /\ resp' = AccessResp("POST /api/leases", u, 200, {}, {})
  /\ UNCHANGED <<relations, leaseTenants, users, properties, trav>>

InitAccess ==
  /\ \E g \in GraphChoicesOf(MaxAccessEdges),
        pct \in [1..MaxAccessEdges -> GraphPcts] :
       relations = GraphRelations(g, pct)
  /\ leaseTenants = {}
  /\ \E assigned \in {"A", NULL} :
       users = [DefaultUsers EXCEPT !["user1"].assignedCompanyId = assigned]
  /\ properties =
       {[id |-> "P1", organizationId |-> "o1", ownerCompanyId |-> NULL,
         acquisitionDate |-> 1, acquisitionPrice |-> 1000],
        [id |-> "P3", organizationId |-> "o2", ownerCompanyId |-> "X",
         acquisitionDate |-> 2, acquisitionPrice |-> 300]}
  /\ leases = {[id |-> 1, propertyId |-> "P1", organizationId |-> "o1",
                totalArea |-> 100]}
  /\ trav = NoTrav
  /\ resp = NoResp

NextAccess ==
  \/ \E u \in AccessReaders : GetProperties(u)
  \/ \E u \in AccessReaders, id \in PropertyIds : GetPropertyById(u, id)
  \/ \E u \in AccessReaders, id \in PropertyIds : GetPropertyLeases(u, id)
  \/ \E u \in AccessReaders : GetLeases(u)
  \/ \E u \in AccessReaders, id \in 1..MaxLeases : GetLeaseById(u, id)
  \/ \E u \in AccessReaders : GetDashboardStats(u)
  \/ \E u \in AccessReaders : GetDashboardRecent(u)
  \/ \E m \in {"total", "weighted", "none"} : PutUserPreferences("user1", m)
  \/ \E u \in AccessWriters, id \in PropertyIds,
        ownerCompanyId \in {"B"} :
       PutProperty(u, id, ownerCompanyId)
  \/ \E u \in AccessWriters, propertyId \in PropertyIds :
       PostLease(u, propertyId)

SpecAccess == InitAccess /\ [][NextAccess]_vars

----------------------------------------------------------------------------
(* calculateOwnershipFromRoot as a function of the relation table *)

\* The percentages of the relations of the weighted graphs: 40, 60 and 100
\* percent
WeightPcts == {4000, 6000, 10000}

\* The recursive calls the outermost call makes: none when it returns at
\* rootCompanyId === targetCompanyId, else one per direct relation whose
\* child is not the target
recursiveCalls(rootCompanyId, targetCompanyId, rels) ==
  IF rootCompanyId = targetCompanyId THEN {}
  ELSE {r \in rels : /\ r.parentCompanyId = rootCompanyId
                     /\ r.childCompanyId # targetCompanyId}

\* this.calculateOwnershipFromRoot(rootCompanyId, targetCompanyId, relations)
CalculateOwnership(rootCompanyId, targetCompanyId) ==
  /\ resp' = [op |-> "calculateOwnershipFromRoot",
              root |-> rootCompanyId,
              target |-> targetCompanyId,
              value |-> calculateOwnershipFromRoot(rootCompanyId,
                          targetCompanyId, relations, 0),
              calls |-> Cardinality(recursiveCalls(rootCompanyId,
                          targetCompanyId, relations))]
  /\ UNCHANGED <<relations, leaseTenants, users, properties, leases, trav>>

InitWeight ==
  /\ \E g \in GraphChoices, pct \in [1..MaxEdges -> WeightPcts] :
       relations = GraphRelations(g, pct)
  /\ leaseTenants = {}
  /\ users = DefaultUsers
  /\ properties = {}
  /\ leases = {}
  /\ trav = NoTrav
  /\ resp = NoResp

NextWeight ==
  \E i, j \in DOMAIN GraphCompanies :
     CalculateOwnership(GraphCompanies[i], GraphCompanies[j])

SpecWeight == InitWeight /\ [][NextWeight]_vars

----------------------------------------------------------------------------
(* The dashboard of a role "user" as a function of the store *)

\* The percentages of the relations of the dashboard graphs: 50 and 100
\* percent
StatsPcts == {5000, 10000}

\* acquisitionDate of P1 and of P2, in days since 1970-01-01: P1 acquired
\* before 1970 and P2 without a date, P2 the more recent, both the same day
StatsDates == {<<-1, NullDate>>, <<1, 2>>, <<1, 1>>}

\* The store: two properties of organization o1 with a lease each, one
\* property of organization o2
StatsProperties(owner1, owner2, dates) ==
  {[id |-> "P1", organizationId |-> "o1", ownerCompanyId |-> owner1,
    acquisitionDate |-> dates[1], acquisitionPrice |-> 1000],
   [id |-> "P2", organizationId |-> "o1", ownerCompanyId |-> owner2,
    acquisitionDate |-> dates[2], acquisitionPrice |-> 300],
   [id |-> "P3", organizationId |-> "o2", ownerCompanyId |-> "X",
    acquisitionDate |-> 2, acquisitionPrice |-> 500]}

StatsLeases ==
  {[id |-> 1, propertyId |-> "P1", organizationId |-> "o1", totalArea |-> 100],
   [id |-> 2, propertyId |-> "P2", organizationId |-> "o1", totalArea |-> 60]}

InitStats ==
  /\ \E g \in GraphChoicesOf(MaxAccessEdges),
        pct \in [1..MaxAccessEdges -> StatsPcts] :
       relations = GraphRelations(g, pct)
  /\ leaseTenants = {}
  /\ \E assigned \in {"A", NULL} :
       users = [DefaultUsers EXCEPT !["user1"].assignedCompanyId = assigned]
  /\ \E owner1 \in {"B", "C"}, owner2 \in {"A", "C", NULL},
        dates \in StatsDates :
       properties = StatsProperties(owner1, owner2, dates)
  /\ leases = StatsLeases
  /\ trav = NoTrav
  /\ resp = NoResp

NextStats ==
  \/ GetDashboardStats("user1")
  \/ GetDashboardRecent("user1")

SpecStats == InitStats /\ [][NextStats]_vars

----------------------------------------------------------------------------
(* Dashboard view mode per role: createUser, PUT /api/user/preferences and
   GET /api/dashboard/stats *)

\* storage.createUser(insertUser): the row of a new user; the invitation
\* accept route passes the role and assignedCompanyId of the invitation
createUser(role, organizationId, assignedCompanyId) ==
  [role |-> role,
   organizationId |-> organizationId,
   assignedCompanyId |-> assignedCompanyId,
   dashboardViewMode |-> createUserViewMode(role)]

\* The users of organization o1 who toggle and read the dashboard
PrefsUsers == {"admin1", "user1", "broker1"}

InitPrefs ==
  /\ \E g \in GraphChoicesOf(MaxAccessEdges),
        pct \in [1..MaxAccessEdges -> StatsPcts] :
       relations = GraphRelations(g, pct)
  /\ leaseTenants = {}
  /\ \E assignedCompanyId \in {"A", NULL} :
       users = [DefaultUsers EXCEPT
                  !["broker1"] = createUser("broker", "o1", assignedCompanyId)]
  /\ properties = StatsProperties("B", "A", <<1, 2>>)
  /\ leases = StatsLeases
  /\ trav = NoTrav
  /\ resp = NoResp

NextPrefs ==
  \/ \E u \in PrefsUsers, m \in {"total", "weighted", "none"} :
       PutUserPreferences(u, m)
  \/ \E u \in PrefsUsers : GetDashboardStats(u)

SpecPrefs == InitPrefs /\ [][NextPrefs]_vars

----------------------------------------------------------------------------
(* Concurrent calls of getAccessibleCompanyIds: each call has its own
   visitedCompanies and accessibleCompanies; the calls interleave at every
   await, and relations may be deleted in between *)

\* The requests in flight at once
ConcCalls == {1, 2}

\* The companies the concurrent calls start from
ConcRoots == {"A", "B"}

IdleCall ==
  [status |-> "idle", root |-> NULL, stack |-> <<>>,
   visitedCompanies |-> {}, accessibleCompanies |-> {}, result |-> {},
   started |-> {}, inFlight |-> FALSE]

\* visitedCompanies as one set shared by all the calls in flight
visitedHas_Shared(calls, i, companyId) ==
  \E j \in DOMAIN calls :
    /\ j = i \/ calls[j].status = "running"
    /\ companyId \in calls[j].visitedCompanies

\* visitedCompanies.has(currentCompanyId): the set created by call i
visitedHas(calls, i, companyId) == companyId \in calls[i].visitedCompanies

\* const visitedCompanies = new Set(); const accessibleCompanies = new Set();
\* await traverseOwnership(companyId).  started records the relation table
\* at the time of the call, inFlight whether another call still running had
\* visited the root by then.
ConcStart(i, root) ==
  /\ trav[i].status # "running"
  /\ trav' = [trav EXCEPT ![i] =
                [status |-> "running", root |-> root,
                 stack |-> <<CallFrame(root, rootOwnership)>>,
                 visitedCompanies |-> {}, accessibleCompanies |-> {},
                 result |-> {}, started |-> relations,
                 inFlight |->
                   \E j \in ConcCalls \ {i} :
                     /\ trav[j].status = "running"
                     /\ root \in trav[j].visitedCompanies]]
  /\ UNCHANGED <<relations, leaseTenants, users, properties, leases, resp>>

\* Leaving a frame of a concurrent call
ConcAfterReturn(t) ==
  IF Len(t.stack) = 1
  THEN [t EXCEPT !.stack = <<>>, !.status = "done",
                 !.result = t.accessibleCompanies]
  ELSE [t EXCEPT !.stack = Pop(t.stack)]

\* if (visitedCompanies.has(currentCompanyId)) return;
ConcRevisit(i) ==
  /\ trav[i].status = "running"
  /\ Top(trav[i].stack).pc = "enter"
  /\ visitedHas(trav, i, Top(trav[i].stack).companyId)
  /\ trav' = [trav EXCEPT ![i] = ConcAfterReturn(trav[i])]
  /\ UNCHANGED <<relations, leaseTenants, users, properties, leases, resp>>

\* visitedCompanies.add; accessibleCompanies.add; await getChildRelations
ConcExpand(i) ==
  /\ trav[i].status = "running"
  /\ Top(trav[i].stack).pc = "enter"
  /\ ~visitedHas(trav, i, Top(trav[i].stack).companyId)
  /\ LET f == Top(trav[i].stack)
         n == Len(trav[i].stack)
     IN trav' = [trav EXCEPT ![i] = [trav[i] EXCEPT
          !.visitedCompanies = @ \cup {f.companyId},
          !.accessibleCompanies =
             IF ownershipPositive(f.ownership) THEN @ \cup {f.companyId} ELSE @,
          !.stack[n] = [f EXCEPT !.pc = "loop",
                          !.childRelations =
                             getChildRelations(relations, f.companyId)]]]
  /\ UNCHANGED <<relations, leaseTenants, users, properties, leases, resp>>

\* for (const relation of childRelations) await traverseOwnership(child, ...)
ConcChild(i) ==
  /\ trav[i].status = "running"
  /\ Top(trav[i].stack).pc = "loop"
  /\ Len(trav[i].stack) < TravDepthCap
  /\ \E relation \in Top(trav[i].stack).childRelations :
       LET f == Top(trav[i].stack)
           n == Len(trav[i].stack)
       IN trav' = [trav EXCEPT ![i] = [trav[i] EXCEPT
            !.stack = Append(
               [trav[i].stack EXCEPT ![n].childRelations = @ \ {relation}],
               CallFrame(relation.childCompanyId,
                         childOwnership(f.ownership,
                                        relation.ownershipPercentage)))]]
  /\ UNCHANGED <<relations, leaseTenants, users, properties, leases, resp>>

\* the end of the for loop: the call returns
ConcReturn(i) ==
  /\ trav[i].status = "running"
  /\ Top(trav[i].stack).pc = "loop"
  /\ Top(trav[i].stack).childRelations = {}
  /\ trav' = [trav EXCEPT ![i] = ConcAfterReturn(trav[i])]
  /\ UNCHANGED <<relations, leaseTenants, users, properties, leases, resp>>

InitConc ==
  /\ \E g \in GraphChoicesOf(MaxAccessEdges),
        pct \in [1..MaxAccessEdges -> GraphPcts] :
       relations = GraphRelations(g, pct)
  /\ leaseTenants = {}
  /\ users = DefaultUsers
  /\ properties = {}
  /\ leases = {}
  /\ trav = [i \in ConcCalls |-> IdleCall]
  /\ resp = NoResp

NextConc ==
  \/ \E i \in ConcCalls, root \in ConcRoots : ConcStart(i, root)
  \/ \E i \in ConcCalls : ConcRevisit(i)
  \/ \E i \in ConcCalls : ConcExpand(i)
  \/ \E i \in ConcCalls : ConcChild(i)
  \/ \E i \in ConcCalls : ConcReturn(i)
  \/ DeleteCompanyRelation("admin1", 1)

SpecConc == InitConc /\ [][NextConc]_vars

----------------------------------------------------------------------------
(* createLeaseTenant as a function of the stored tenancies, the candidate
   and today *)

\* The periods a stored tenancy can have: the schema admits periodEnd null
\* or not before periodStart
StoredPeriods ==
  {pe \in Dates \X (Dates \cup {NullDate}) :
     insertLeaseTenantSchemaOk(pe[1], pe[2])}

\* The lease_tenants rows of lease L1 chosen by ch: per id, no row (<<>>) or a
\* period
StoredTenancies(ch) ==
  {[id |-> i, leaseId |-> "L1", periodStart |-> ch[i][1],
    periodEnd |-> ch[i][2], organizationId |-> "o1"] :
     i \in {k \in DOMAIN ch : ch[k] # <<>>}}

\* storage.createLeaseTenant(leaseTenant), called once on the store
CreateLeaseTenantCall(leaseId, periodStart, periodEnd, today) ==
  /\ resp = NoResp
  /\ resp' = [op |-> "createLeaseTenant", leaseId |-> leaseId,
              periodStart |-> periodStart, periodEnd |-> periodEnd,
              today |-> today,
              outcome |-> createLeaseTenantCheck(leaseTenants, leaseId,
                            periodStart, periodEnd, today)]
  /\ UNCHANGED <<relations, leaseTenants, users, properties, leases, trav>>

InitCreate ==
  /\ relations = {}
  /\ \E ch \in [1..MaxLeaseTenants -> StoredPeriods \cup {<<>>}] :
       leaseTenants = StoredTenancies(ch)
  /\ users = DefaultUsers
  /\ properties = {}
  /\ leases = {}
  /\ trav = NoTrav
  /\ resp = NoResp

NextCreate ==
  \E l \in LeaseIds, s \in Dates, e \in Dates \cup {NullDate},
     today \in Todays :
    CreateLeaseTenantCall(l, s, e, today)

SpecCreate == InitCreate /\ [][NextCreate]_vars

----------------------------------------------------------------------------
(* Concurrent POST /api/company-relations: the handler awaits
   getParentRelations and later createCompanyRelation; two requests
   interleave between the two *)

\* The requests in flight at once
RaceCalls == {1, 2}

\* The percentages the concurrent requests carry: 40%, 60% and one out of
\* range
RacePcts == {4000, 6000, 10001}

\* The rows the 100% check of a request sums, were the check and the insert
\* one transaction: those stored at the time of the insert
parentRelationsAtInsert_Atomic(existingParentRelations, rels, childCompanyId) ==
  getParentRelations(rels, childCompanyId)

\* The rows the 100% check of a request sums: existingParentRelations, read
\* before the insert
parentRelationsAtInsert(existingParentRelations, rels, childCompanyId) ==
  existingParentRelations

\* The handler up to  existingParentRelations = await getParentRelations(..)
RacePostRead(i, u, parentCompanyId, childCompanyId, pct) ==
  LET user == users[u]
      call == [pc |-> "done", parentCompanyId |-> parentCompanyId,
               childCompanyId |-> childCompanyId, pct |-> pct,
               existingParentRelations |-> {}, status |-> 0]
  IN
  /\ trav[i].pc = "idle"
  /\ trav' = [trav EXCEPT ![i] =
       IF ~canWrite(user) THEN [call EXCEPT !.status = 403]
       ELSE IF pct < 1 \/ pct > 10000 THEN [call EXCEPT !.status = 400]
       ELSE IF getCompany(parentCompanyId, user.organizationId) = NULL
               \/ getCompany(childCompanyId, user.organizationId) = NULL
       THEN [call EXCEPT !.status = 404]
       ELSE [call EXCEPT !.pc = "read",
                         !.existingParentRelations =
                            getParentRelations(relations, childCompanyId)]]
  /\ UNCHANGED <<relations, leaseTenants, users, properties, leases, resp>>

\* The rest of the handler: the 100% check on the rows read, then
\* await createCompanyRelation
RacePostCommit(i) ==
  LET call == trav[i]
      rows == parentRelationsAtInsert(call.existingParentRelations, relations,
                                      call.childCompanyId)
  IN
  /\ call.pc = "read"
  /\ IF newTotalExceeds100(rows, call.childCompanyId, call.pct)
     THEN /\ trav' = [trav EXCEPT ![i].pc = "done", ![i].status = 400]
          /\ UNCHANGED relations
     ELSE /\ FreeRelIds(relations) # {}
          /\ LET id == CHOOSE k \in FreeRelIds(relations) : TRUE
             IN relations' = relations \cup
                  {[id |-> id,
                    parentCompanyId |-> call.parentCompanyId,
                    childCompanyId |-> call.childCompanyId,
                    ownershipPercentage |-> call.pct]}
          /\ trav' = [trav EXCEPT ![i].pc = "done", ![i].status = 200]
  /\ UNCHANGED <<leaseTenants, users, properties, leases, resp>>

InitRelRace ==
  /\ relations = {}
  /\ leaseTenants = {}
  /\ users = DefaultUsers
  /\ properties = {}
  /\ leases = {}
  /\ trav = [i \in RaceCalls |-> [pc |-> "idle"]]
  /\ resp = NoResp

NextRelRace ==
  \/ \E i \in RaceCalls, u \in {"admin1", "user1"},
        p \in RelCompanies, c \in {"A", "B"}, pct \in RacePcts :
       RacePostRead(i, u, p, c, pct)
  \/ \E i \in RaceCalls : RacePostCommit(i)

SpecRelRace == InitRelRace /\ [][NextRelRace]_vars

----------------------------------------------------------------------------
(* Concurrent createLeaseTenant: the function awaits the select of the
   existing tenancies of the lease and later the insert; two calls
   interleave between the two *)

\* new Date() of the concurrent calls
RaceToday == [day |-> 1, midnight |-> FALSE]

\* The rows the checks of a call run over, were the checks and the insert
\* one transaction: those stored at the time of the insert
tenantsAtInsert_Atomic(existingTenants, lts) == lts

\* The rows the checks of a call run over: existingTenants, selected before
\* the insert
tenantsAtInsert(existingTenants, lts) == existingTenants

\* createLeaseTenant up to  existingTenants = await db.select()...
RaceCreateRead(i, leaseId, periodStart, periodEnd) ==
  /\ trav[i].pc = "idle"
  /\ insertLeaseTenantSchemaOk(periodStart, periodEnd)
  /\ trav' = [trav EXCEPT ![i] =
                [pc |-> "read", leaseId |-> leaseId,
                 periodStart |-> periodStart, periodEnd |-> periodEnd,
                 existingTenants |->
                   {t \in leaseTenants : t.leaseId = leaseId},
                 outcome |-> "none"]]
  /\ UNCHANGED <<relations, leaseTenants, users, properties, leases, resp>>

\* The rest of createLeaseTenant: the two checks over the rows selected, then
\* await db.insert(leaseTenants)
RaceCreateCommit(i) ==
  LET call == trav[i]
      outcome == createLeaseTenantCheck(
                   tenantsAtInsert(call.existingTenants, leaseTenants),
                   call.leaseId, call.periodStart, call.periodEnd, RaceToday)
  IN
  /\ call.pc = "read"
  /\ trav' = [trav EXCEPT ![i].pc = "done", ![i].outcome = outcome]
  /\ IF outcome # "ok"
     THEN UNCHANGED leaseTenants
     ELSE /\ FreeLeaseTenantIds(leaseTenants) # {}
          /\ LET id == CHOOSE k \in FreeLeaseTenantIds(leaseTenants) : TRUE
             IN leaseTenants' = leaseTenants \cup
                  {[id |-> id,
                    leaseId |-> call.leaseId,
                    periodStart |-> call.periodStart,
                    periodEnd |-> call.periodEnd,
                    organizationId |-> LeaseOrg[call.leaseId]]}
  /\ UNCHANGED <<relations, users, properties, leases, resp>>

InitLTRace ==
  /\ relations = {}
  /\ leaseTenants = {}
  /\ users = DefaultUsers
  /\ properties = {}
  /\ leases = {}
  /\ trav = [i \in RaceCalls |-> [pc |-> "idle"]]
  /\ resp = NoResp

NextLTRace ==
  \/ \E i \in RaceCalls, l \in LeaseIds, s \in Dates,
        e \in Dates \cup {NullDate} :
       RaceCreateRead(i, l, s, e)
  \/ \E i \in RaceCalls : RaceCreateCommit(i)

SpecLTRace == InitLTRace /\ [][NextLTRace]_vars

----------------------------------------------------------------------------
(* calculateOwnershipFromRoot compared with 1.0: the value is a double *)

\* The percentages of the relations of the graphs below: 0.71, 99.29 and 100
\* percent
RoundPcts == {71, 9929, 10000}

\* calculateOwnershipFromRoot(root, target, relations) > 1.0.  totalOwnership
\* is an IEEE-754 double: parseFloat("0.71") / 100 + parseFloat("99.29") / 100
\* is 1.0000000000000002 in either order, and adding a share of 0 changes
\* nothing; over RoundPcts and at most two relations the double sum equals
\* the decimal sum in every other case.
ownershipAboveOne(rootCompanyId, targetCompanyId, rels) ==
  LET value == calculateOwnershipFromRoot(rootCompanyId, targetCompanyId,
                                          rels, 0)
      direct == {r \in rels : /\ r.parentCompanyId = rootCompanyId
                              /\ r.childCompanyId = targetCompanyId}
  IN /\ value # Diverges
     /\ \/ value > 10000
        \/ /\ rootCompanyId # targetCompanyId
           /\ Cardinality(direct) = 2
           /\ {r.ownershipPercentage : r \in direct} = {71, 9929}
           /\ value = 10000

InitRound ==
  /\ \E g \in GraphChoicesOf(MaxAccessEdges),
        pct \in [1..MaxAccessEdges -> RoundPcts] :
       relations = GraphRelations(g, pct)
  /\ leaseTenants = {}
  /\ users = DefaultUsers
  /\ properties = {}
  /\ leases = {}
  /\ trav = NoTrav
  /\ resp = NoResp

SpecRound == InitRound /\ [][NextWeight]_vars

----------------------------------------------------------------------------
(* Tenant data in the responses to a broker: two stores side by side *)

\* anonymizeTenantData(tenant, user) of auth.ts; an email is kept as
\* <<first character, rest>> and `${email[0]}*****@*****` as
\* <<first character, "*****@*****">>
anonymizeTenantData(tenant, user) ==
  LET truthy(v) == v # NULL /\ v # ""
  IN IF ~isBroker(user)
     THEN tenant
     ELSE [tenant EXCEPT
             !.name = "Anonymiseret",
             !.cvrNumber = IF truthy(@) THEN "********" ELSE NULL,
             !.contactPerson = IF truthy(@) THEN "Anonymiseret" ELSE NULL,
             !.phone = "*******",
             !.email = IF truthy(@) THEN <<@[1], "*****@*****">> ELSE NULL,
             !.invoiceEmail =
                IF truthy(@) THEN <<@[1], "*****@*****">> ELSE NULL,
             !.notes = IF truthy(@) THEN "(Anonymiseret)" ELSE NULL]

\* The rows of lease_tenants left-joined with tenants, as getLeaseTenants and
\* getAllLeaseTenants select them; rows without a tenant are filtered out
leaseTenantsWithTenant(lts, ts) ==
  {[id |-> lt.id, leaseId |-> lt.leaseId, tenantId |-> lt.tenantId,
    organizationId |-> lt.organizationId, tenant |-> t] :
     <<lt, t>> \in {p \in lts \X ts : p[1].tenantId = p[2].id}}

\* GET /api/tenants (requireAuth; the first handler registered for the path),
\* answered from each of the two stores
GetTenants(u) ==
  LET user == users[u]
      body(ts) == {anonymizeTenantData(t, user) :
                     t \in {x \in ts : x.organizationId = user.organizationId}}
  IN /\ resp' = [op |-> "GET /api/tenants", user |-> u, status |-> 200,
                 a |-> body(trav.a), b |-> body(trav.b)]
     /\ UNCHANGED <<relations, leaseTenants, users, properties, leases, trav>>

\* GET /api/tenants/:id (requireAuth)
GetTenant(u, id) ==
  LET user == users[u]
      found(ts) == {x \in ts : /\ x.id = id
                               /\ x.organizationId = user.organizationId}
      body(ts) == {anonymizeTenantData(t, user) : t \in found(ts)}
  IN /\ resp' = [op |-> "GET /api/tenants/:id", user |-> u,
                 status |-> IF found(trav.a) = {} THEN 404 ELSE 200,
                 a |-> body(trav.a), b |-> body(trav.b)]
     /\ UNCHANGED <<relations, leaseTenants, users, properties, leases, trav>>

\* GET /api/leases/:leaseId/tenants (requireAuth; the first handler
\* registered for the path)
GetLeaseTenants(u, leaseId) ==
  LET user == users[u]
      body(ts) ==
        {[row EXCEPT !.tenant = anonymizeTenantData(@, user)] :
           row \in {r \in leaseTenantsWithTenant(leaseTenants, ts) :
                      r.leaseId = leaseId}}
  IN /\ resp' = IF getLease(leaseId, user.organizationId) = NULL
                THEN [op |-> "GET /api/leases/:leaseId/tenants", user |-> u,
                      status |-> 404, a |-> {}, b |-> {}]
                ELSE [op |-> "GET /api/leases/:leaseId/tenants", user |-> u,
                      status |-> 200, a |-> body(trav.a), b |-> body(trav.b)]
     /\ UNCHANGED <<relations, leaseTenants, users, properties, leases, trav>>

\* GET /api/all-lease-tenants (requireAuth): the rows of
\* getAllLeaseTenants(user.organizationId) as they are
GetAllLeaseTenants(u) ==
  LET user == users[u]
      body(ts) == {r \in leaseTenantsWithTenant(leaseTenants, ts) :
                     r.organizationId = user.organizationId}
  IN /\ resp' = [op |-> "GET /api/all-lease-tenants", user |-> u,
                 status |-> 200, a |-> body(trav.a), b |-> body(trav.b)]
     /\ UNCHANGED <<relations, leaseTenants, users, properties, leases, trav>>

\* Two stores with the tenant T1 of organization o1, equal but for name,
\* cvrNumber, contactPerson, phone and notes of the tenant; T1 may have a
\* tenancy of lease L1
InitAnon ==
  /\ relations = {}
  /\ \E lts \in SUBSET {[id |-> 1, leaseId |-> "L1", tenantId |-> "T1",
                         organizationId |-> "o1"]} :
       leaseTenants = lts
  /\ users = DefaultUsers
  /\ properties = {}
  /\ leases = {}
  /\ \E fa, fb \in [name : {"Acme ApS", "Bolt A/S"},
                    cvrNumber : {NULL, "11111111", "22222222"},
                    contactPerson : {NULL, "Ann"},
                    phone : {"11 11 11 11", "22 22 22 22"},
                    notes : {NULL, "pays late"}],
        invoiceEmail \in {NULL, <<"f", "aktura@acme.dk">>} :
       LET tenant(f) ==
             [id |-> "T1", organizationId |-> "o1",
              name |-> f.name, cvrNumber |-> f.cvrNumber,
              contactPerson |-> f.contactPerson, phone |-> f.phone,
              email |-> <<"k", "ontakt@acme.dk">>,
              invoiceEmail |-> invoiceEmail, notes |-> f.notes]
       IN trav = [a |-> {tenant(fa)}, b |-> {tenant(fb)}]
  /\ resp = NoResp

NextAnon ==
  \E u \in {"broker1", "admin1", "admin2"} :
     \/ GetTenants(u)
     \/ \E id \in {"T1", "T2"} : GetTenant(u, id)
     \/ \E leaseId \in LeaseIds : GetLeaseTenants(u, leaseId)
     \/ GetAllLeaseTenants(u)

SpecAnon == InitAnon /\ [][NextAnon]_vars

----------------------------------------------------------------------------
(* Claims about the ownership graph store, checked under SpecRel *)

\* C1: in every state reachable by create, update and delete of relations,
\* for every company the percentages of its incoming relations sum to at
\* most 100.00.
C1_IncomingSumAtMost100 ==
  \A c \in Companies : IncomingSum(relations, c) <= 10000

\* The sum of the percentages of the relations with the same child as
\* relation id, that relation excluded.
OthersSum(rels, id) ==
  LET r == CHOOSE x \in rels : x.id = id
  IN IncomingSum(rels \ {r}, r.childCompanyId)

\* C2: an update of a relation's percentage to p is rejected with 400 and
\* leaves the relation unchanged whenever p plus the percentages of the
\* other relations of the same child exceeds 100.
C2_UpdateRevalidates ==
  [][\A u \in UserIds, id \in 1..MaxRel, pct \in PctInputs :
       (/\ PutCompanyRelation(u, id, pct)
        /\ canWrite(users[u])
        /\ \E r \in relations : r.id = id
        /\ OthersSum(relations, id) + pct > 10000)
       => (resp'.status = 400 /\ relations' = relations)]_vars

\* C3: for an in-range percentage and companies of the caller's
\* organization, a create is rejected with 400 exactly when the existing
\* incoming total E of the child plus pct exceeds 100; a rejection inserts
\* nothing and reports E and E + pct (as the message prints them, with one
\* decimal).
C3_CreateRejectedIffExceeds ==
  [][\A u \in UserIds, p \in Companies, c \in Companies, pct \in PctInputs :
       (/\ PostCompanyRelation(u, p, c, pct)
        /\ canWrite(users[u])
        /\ pct >= 1 /\ pct <= 10000
        /\ getCompany(p, users[u].organizationId) # NULL
        /\ getCompany(c, users[u].organizationId) # NULL)
       => LET E == IncomingSum(relations, c)
          IN /\ (resp'.status = 400) <=> (E + pct > 10000)
             /\ resp'.status = 400 =>
                  /\ relations' = relations
                  /\ resp'.currentTotal \in toFixed1(E)
                  /\ resp'.newTotal \in toFixed1(E + pct)]_vars

----------------------------------------------------------------------------
(* Claims about lease tenancies, checked under SpecLT *)

\* Two inclusive periods overlap, a null end being open-ended (+infinity).
OverlapOpenEnded(aStart, aEnd, bStart, bEnd) ==
  /\ (bEnd = NullDate \/ aStart <= bEnd)
  /\ (aEnd = NullDate \/ aEnd >= bStart)

\* C4: in every state reachable by create, update and delete of tenancies,
\* no two LeaseTenant records of one lease have overlapping inclusive
\* periods, a null end counting as open-ended.
C4_NoOverlapPerLease ==
  \A a \in leaseTenants, b \in leaseTenants :
    (a.id # b.id /\ a.leaseId = b.leaseId)
      => ~OverlapOpenEnded(a.periodStart, a.periodEnd,
                           b.periodStart, b.periodEnd)

\* The request passes the role gate, the schema and the lease lookup, so
\* that storage.createLeaseTenant decides it.
ReachesCreateLeaseTenant(u, l, s, e) ==
  /\ canWrite(users[u])
  /\ insertLeaseTenantSchemaOk(s, e)
  /\ getLease(l, users[u].organizationId) # NULL

\* C5: createLeaseTenant fails with a conflict and inserts nothing if and
\* only if some existing tenancy of the same lease satisfies
\* candidate.start <= (existing.end or +infinity) and
\* (candidate.end or +infinity) >= existing.start; otherwise exactly one
\* record is inserted.
C5_CreateFailsIffOverlap ==
  [][\A u \in TenancyUsers, l \in LeaseIds, s \in Dates,
        e \in Dates \cup {NullDate}, today \in Todays :
       (PostLeaseTenant(u, l, s, e, today) /\ ReachesCreateLeaseTenant(u, l, s, e))
       => LET conflict ==
                \E x \in leaseTenants :
                  /\ x.leaseId = l
                  /\ OverlapOpenEnded(s, e, x.periodStart, x.periodEnd)
          IN /\ conflict <=> (resp'.status = 400)
             /\ conflict => leaseTenants' = leaseTenants
             /\ ~conflict =>
                  /\ leaseTenants \subseteq leaseTenants'
                  /\ Cardinality(leaseTenants') = Cardinality(leaseTenants) + 1
       ]_vars

\* C6: if a lease has a tenancy with a null periodEnd, createLeaseTenant
\* rejects every candidate for that lease whose period is not entirely
\* before that tenancy's periodStart, whatever the candidate's start and end.
C6_OpenEndedExcludes ==
  [][\A u \in TenancyUsers, l \in LeaseIds, s \in Dates,
        e \in Dates \cup {NullDate}, today \in Todays :
       (/\ PostLeaseTenant(u, l, s, e, today)
        /\ ReachesCreateLeaseTenant(u, l, s, e)
        /\ \E x \in leaseTenants :
             /\ x.leaseId = l
             /\ x.periodEnd = NullDate
             /\ ~(e # NullDate /\ e < x.periodStart))
       => (resp'.status = 400 /\ leaseTenants' = leaseTenants)]_vars

----------------------------------------------------------------------------
(* Claims about the reachable-set traversal, checked under SpecTrav *)

\* The companies a directed path of relations of positive percentage leads
\* to from root, root included (least fixed point, no traversal order).
RECURSIVE PathClosure(_, _)
PathClosure(rels, S) ==
  LET next == S \cup {r.childCompanyId :
                        r \in {x \in rels : /\ x.parentCompanyId \in S
                                            /\ x.ownershipPercentage > 0}}
  IN IF next = S THEN S ELSE PathClosure(rels, next)

PathReachable(rels, root) == PathClosure(rels, {root})

HasCycle(rels) ==
  \E r \in rels :
    r.parentCompanyId \in PathReachable(rels, r.childCompanyId)

C10_TraversalTerminates ==
  /\ [](trav.status # "idle" =>
          /\ \A c \in Companies : trav.expanded[c] <= 1
          /\ Len(trav.stack) <= Len(GraphCompanies) + 1)
  /\ (trav.status = "running" ~> trav.status = "done")

\* A finished traversal that met an already visited company on a graph
\* with a self-loop.
C10_Witness ==
  /\ trav.status = "done"
  /\ trav.revisits = 1
  /\ \E r \in relations : r.parentCompanyId = r.childCompanyId
  /\ \E r \in relations : r.parentCompanyId # r.childCompanyId

----------------------------------------------------------------------------
(* Claims about what a role "user" may read, checked under SpecAccess *)

\* The properties the access rule lets the user see: those of the user's
\* organization whose owner company is reachable from the assigned company
VisibleProperties(u) ==
  IF users[u].assignedCompanyId = NULL THEN {}
  ELSE {p \in properties :
          /\ p.organizationId = users[u].organizationId
          /\ p.ownerCompanyId # NULL
          /\ p.ownerCompanyId \in
               PathReachable(relations, users[u].assignedCompanyId)}

\* C7: for a user with role "user", GET /api/properties answers exactly the
\* properties of the user's organization whose owner company is in the
\* reachable set of the assigned company, and GET /api/leases answers exactly
\* the leases (of the user's organization) whose property is such a property;
\* both are empty when assignedCompanyId is null, and a property with null
\* owner is never listed.
C7_ListsExactlyVisible ==
  (/\ resp.op \in {"GET /api/properties", "GET /api/leases"}
   /\ users[resp.user].role = "user")
  => /\ resp.op = "GET /api/properties"
          => resp.properties = VisibleProperties(resp.user)
     /\ resp.op = "GET /api/leases"
          => /\ resp.leases =
                  {l \in leases :
                     /\ l.organizationId = users[resp.user].organizationId
                     /\ \E p \in VisibleProperties(resp.user) :
                          p.id = l.propertyId}
             /\ resp.properties \subseteq VisibleProperties(resp.user)
     /\ \A p \in resp.properties : p.ownerCompanyId # NULL

ReadOps ==
  {"GET /api/properties", "GET /api/properties/:id",
   "GET /api/properties/:id/leases", "GET /api/leases", "GET /api/leases/:id",
   "GET /api/dashboard/stats", "GET /api/dashboard/recent"}

\* C8: no read endpoint (property list, property by id, leases of a
\* property, lease by id, dashboard stats latestProperty, dashboard recent)
\* answers a role "user" with a property, or a lease of a property, whose
\* owner company is null or outside the reachable set of the user's assigned
\* company, in either dashboardViewMode.
C8_ReadsOnlyVisible ==
  (/\ resp.op \in ReadOps
   /\ users[resp.user].role = "user")
  => /\ \A p \in resp.properties :
          /\ p.ownerCompanyId # NULL
          /\ users[resp.user].assignedCompanyId # NULL
          /\ p.ownerCompanyId \in
               PathReachable(relations, users[resp.user].assignedCompanyId)
     /\ \A l \in resp.leases : \E p \in resp.properties : p.id = l.propertyId

----------------------------------------------------------------------------
(* Claims about calculateOwnershipFromRoot, checked under SpecWeight *)

\* The directed paths of n relations from root to target (parallel relations
\* are different relations, so different paths)
PathsOfLength(rels, root, target, n) ==
  {p \in [1..n -> rels] :
     /\ p[1].parentCompanyId = root
     /\ p[n].childCompanyId = target
     /\ \A i \in 1..(n - 1) : p[i].childCompanyId = p[i + 1].parentCompanyId}

\* The product of percentage/100 along the first i relations of a path, in
\* units of 1/10000
RECURSIVE PathProduct(_, _)
PathProduct(p, i) ==
  IF i = 1 THEN p[1].ownershipPercentage
  ELSE (PathProduct(p, i - 1) * p[i].ownershipPercentage) \div 10000

\* The sum over all paths from root to target of the product along the path;
\* the one path from a company to itself in an acyclic graph is the empty one
PathSum(rels, root, target) ==
  IF root = target THEN 10000
  ELSE SumOver(1..(Cardinality(Companies) - 1),
               [n \in 1..(Cardinality(Companies) - 1) |->
                  SumOver(PathsOfLength(rels, root, target, n),
                          [p \in PathsOfLength(rels, root, target, n) |->
                             PathProduct(p, n)])])

\* C11: on every acyclic relation graph calculateOwnershipFromRoot(root,
\* target) terminates and equals the sum over all directed paths from root to
\* target of the product of percentage/100 along the path, parallel relations
\* counting as separate edges.
C11_WeightIsPathSum ==
  (resp.op = "calculateOwnershipFromRoot" /\ ~HasCycle(relations))
  => /\ resp.value # Diverges
     /\ resp.value = PathSum(relations, resp.root, resp.target)

\* A-60%->C with A-40%->B-100%->C gives 1.00
C11_Witness ==
  /\ resp.op = "calculateOwnershipFromRoot"
  /\ resp.root = "A" /\ resp.target = "C"
  /\ {<<r.parentCompanyId, r.childCompanyId, r.ownershipPercentage>> :
        r \in relations}
       = {<<"A", "C", 6000>>, <<"A", "B", 4000>>, <<"B", "C", 10000>>}
  /\ resp.value = 10000

\* C13: calculateOwnershipFromRoot(X, X, relations) is exactly 1.0 for every
\* company X and every relation set, cycles through X and self-loops of X
\* included, and the call makes no recursive call.
C13_SelfWeightIsOne ==
  (resp.op = "calculateOwnershipFromRoot" /\ resp.root = resp.target)
  => resp.value = 10000 /\ resp.calls = 0

\* X has a self-loop and lies on a cycle through another company
C13_Witness ==
  /\ resp.op = "calculateOwnershipFromRoot"
  /\ resp.root = "A" /\ resp.target = "A"
  /\ \E r \in relations : r.parentCompanyId = "A" /\ r.childCompanyId = "A"
  /\ \E r, q \in relations :
       /\ r.parentCompanyId = "A" /\ r.childCompanyId = "B"
       /\ q.parentCompanyId = "B" /\ q.childCompanyId = "A"
  /\ resp.value = 10000

----------------------------------------------------------------------------
(* Claims about the weighted dashboard, checked under SpecStats *)

\* A cycle none of whose companies is target can be reached from root along a
\* path that does not pass through target
CycleBeforeTarget(rels, root, target) ==
  /\ root # target
  /\ LET sub == {r \in rels : /\ r.parentCompanyId # target
                              /\ r.childCompanyId # target}
     IN \E r \in sub : /\ r.parentCompanyId \in PathReachable(sub, root)
                       /\ r.parentCompanyId \in
                            PathReachable(sub, r.childCompanyId)

\* The properties of the user's organization that have an owner company
OwnedProperties(u) ==
  {p \in properties : /\ p.organizationId = users[u].organizationId
                      /\ p.ownerCompanyId # NULL}

UnreachableOwned(u) ==
  {p \in OwnedProperties(u) :
     p.ownerCompanyId \notin
       PathReachable(relations, users[u].assignedCompanyId)}

\* C14: on an acyclic graph, for a root and every company C that no directed
\* path leads to from the root: calculateOwnershipFromRoot(root, C) is 0, C is
\* not in getAccessibleCompanyIds(root), the weighted count, value, lease
\* count and area are what they are without the properties and leases owned
\* by C, and no such property is latestProperty or listed by
\* getRecentPropertiesWeighted.
C14_NoPathNoShare ==
  (/\ resp.op \in {"GET /api/dashboard/stats", "GET /api/dashboard/recent"}
   /\ resp.status = 200
   /\ users[resp.user].assignedCompanyId # NULL
   /\ ~HasCycle(relations))
  => /\ \A c \in Companies \
                 PathReachable(relations, users[resp.user].assignedCompanyId) :
          /\ calculateOwnershipFromRoot(users[resp.user].assignedCompanyId,
                                        c, relations, 0) = 0
          /\ \A ord \in RowOrders(relations) :
               c \notin getAccessibleCompanyIds(relations, ord,
                          users[resp.user].assignedCompanyId)
     /\ resp.properties \cap UnreachableOwned(resp.user) = {}
     /\ resp.op = "GET /api/dashboard/stats"
          => \E ord \in RowOrders(relations) :
               resp.sums =
                 weightedSums(properties \ UnreachableOwned(resp.user),
                   {l \in leases : \A p \in UnreachableOwned(resp.user) :
                                     l.propertyId # p.id},
                   users, relations, ord, users[resp.user].organizationId,
                   resp.user)

\* Root A owns B only; P1 is owned by B, the more recent P2 by C: P1 is the
\* latest property and the sums are those of P1 and its lease
C14_Witness ==
  /\ resp.op = "GET /api/dashboard/stats"
  /\ resp.status = 200
  /\ users[resp.user].assignedCompanyId = "A"
  /\ {<<r.parentCompanyId, r.childCompanyId, r.ownershipPercentage>> :
        r \in relations} = {<<"A", "B", 5000>>}
  /\ {<<p.id, p.ownerCompanyId, p.acquisitionDate>> :
        p \in OwnedProperties(resp.user)}
       = {<<"P1", "B", 1>>, <<"P2", "C", 2>>}
  /\ {p.id : p \in resp.properties} = {"P1"}
  /\ resp.sums = [count |-> 5000, value |-> 5000000, leaseCount |-> 5000,
                  area |-> 500000]

\* calculateOwnershipFromRoot(R, owner(P)) for the user's root company R
WeightOf(u, p) ==
  calculateOwnershipFromRoot(users[u].assignedCompanyId, p.ownerCompanyId,
                             relations, 0)

\* C16: in weighted mode for a user with assigned company R the property
\* count before rounding is the sum of calculateOwnershipFromRoot(R,
\* owner(P)) over the properties P of the organization that have an owner,
\* and the total value before rounding is the sum of acquisitionPrice(P)
\* times that weight (on an acyclic graph: times the sum over the paths from
\* R to the owner); properties without owner contribute nothing.
C16_WeightedCountAndValue ==
  (/\ resp.op = "GET /api/dashboard/stats"
   /\ resp.status = 200
   /\ users[resp.user].dashboardViewMode = "weighted"
   /\ users[resp.user].assignedCompanyId # NULL)
  => /\ resp.sums.count =
          SumOver(OwnedProperties(resp.user),
                  [p \in OwnedProperties(resp.user) |-> WeightOf(resp.user, p)])
     /\ resp.sums.value =
          SumOver(OwnedProperties(resp.user),
                  [p \in OwnedProperties(resp.user) |->
                     p.acquisitionPrice * WeightOf(resp.user, p)])
     /\ ~HasCycle(relations) =>
          resp.sums.value =
            SumOver(OwnedProperties(resp.user),
                    [p \in OwnedProperties(resp.user) |->
                       p.acquisitionPrice *
                         PathSum(relations, users[resp.user].assignedCompanyId,
                                 p.ownerCompanyId)])

\* A-50%->B-50%->C, P1 of price 1000 owned by C and P2 without owner: the
\* count is 0.25 and the value 250
C16_Witness ==
  /\ resp.op = "GET /api/dashboard/stats"
  /\ resp.status = 200
  /\ users[resp.user].assignedCompanyId = "A"
  /\ {<<r.parentCompanyId, r.childCompanyId, r.ownershipPercentage>> :
        r \in relations} = {<<"A", "B", 5000>>, <<"B", "C", 5000>>}
  /\ {<<p.id, p.ownerCompanyId, p.acquisitionPrice>> :
        p \in OwnedProperties(resp.user)} = {<<"P1", "C", 1000>>}
  /\ resp.sums.count = 2500
  /\ resp.sums.value = 2500000
  /\ resp.stats.count = 25
  /\ resp.stats.totalValue = 250

\* The properties of the user's organization with an owner of weight > 0 from
\* the user's root company
WeightedCandidates(u) ==
  {p \in OwnedProperties(u) : WeightOf(u, p) > 0}

\* C17: in weighted mode latestProperty is a property with the most recent
\* acquisitionDate among the organization's properties that have an owner of
\* weight > 0 from the user's root company (one without a date only when none
\* of them has a date), and it is null exactly when there is no such
\* property; a more recent property of weight 0 or without owner is never
\* returned.
C17_LatestAmongWeighted ==
  (/\ resp.op = "GET /api/dashboard/stats"
   /\ resp.status = 200
   /\ users[resp.user].dashboardViewMode = "weighted"
   /\ users[resp.user].assignedCompanyId # NULL)
  => /\ resp.properties = {} <=> WeightedCandidates(resp.user) = {}
     /\ \A p \in resp.properties :
          /\ p \in WeightedCandidates(resp.user)
          /\ \A q \in WeightedCandidates(resp.user) :
               q.acquisitionDate # NullDate
                 => /\ p.acquisitionDate # NullDate
                    /\ q.acquisitionDate <= p.acquisitionDate

\* C18: calculateWeightedStats for a user whose assignedCompanyId is null
\* returns exactly a result of the unweighted getPropertyStats of the
\* organization, and raises no error, whatever the relation graph.
C18_NullCompanyFallsBackToTotal ==
  (/\ resp.op = "GET /api/dashboard/stats"
   /\ users[resp.user].dashboardViewMode = "weighted"
   /\ users[resp.user].assignedCompanyId = NULL)
  => /\ resp.status = 200
     /\ resp.stats = getPropertyStatsTotals(properties, leases, users,
                       relations, users[resp.user].organizationId)
     /\ IF getPropertyStats(properties, users[resp.user].organizationId) = {}
        THEN resp.properties = {}
        ELSE \E p \in getPropertyStats(properties,
                        users[resp.user].organizationId) :
               resp.properties = {p}

\* A user without company under a graph with a cycle: the totals of both
\* properties and both leases of the organization
C18_Witness ==
  /\ resp.op = "GET /api/dashboard/stats"
  /\ users[resp.user].dashboardViewMode = "weighted"
  /\ users[resp.user].assignedCompanyId = NULL
  /\ HasCycle(relations)
  /\ resp.status = 200
  /\ resp.stats = [count |-> 200, totalValue |-> 1300, leaseCount |-> 200,
                   totalRentCapacity |-> 160]

----------------------------------------------------------------------------
(* Claims about the dashboard view mode, checked under SpecPrefs *)

\* C19: a broker always receives the unweighted totals from
\* GET /api/dashboard/stats and never changes dashboardViewMode: whatever
\* users were created and whatever PUT /api/user/preferences requests were
\* made, a broker's view mode is the one the account was created with and a
\* broker's stats response is the total computation of the organization.
C19_BrokerTotalNeverToggles ==
  \A u \in UserIds :
    users[u].role = "broker"
      => /\ users[u].dashboardViewMode = createUserViewMode("broker")
         /\ (resp.op = "GET /api/dashboard/stats" /\ resp.user = u)
              => /\ resp.status = 200
                 /\ resp.sums = NoSums
                 /\ resp.stats = getPropertyStatsTotals(properties, leases,
                                   users, relations, users[u].organizationId)

----------------------------------------------------------------------------
(* Claims about the write gate of the broker role, checked under SpecLT *)

\* A lease tenancy request of user u, whatever its inputs
LeaseTenantRequest(u) ==
  \/ \E l \in LeaseIds, s \in Dates, e \in Dates \cup {NullDate},
        today \in Todays :
       PostLeaseTenant(u, l, s, e, today)
  \/ \E id \in 1..MaxLeaseTenants, l \in LeaseIds, s \in Dates,
        e \in Dates \cup {NullDate} :
       PatchLeaseTenant(u, id, l, s, e)
  \/ \E id \in 1..MaxLeaseTenants : DeleteLeaseTenant(u, id)

\* C20: the broker role is strictly read-only: no request issued by a
\* broker creates, modifies or deletes a record (every such request is
\* answered 403 and the store is unchanged); here for the LeaseTenant
\* records: a lease tenancy request of a broker leaves lease_tenants as it
\* was.
C20_BrokerNeverWrites ==
  [][\A u \in TenancyUsers :
       (users[u].role = "broker" /\ LeaseTenantRequest(u))
         => leaseTenants' = leaseTenants]_vars

----------------------------------------------------------------------------
(* Claims about concurrent traversals, checked under SpecConc *)

\* The relation table has not been written since call i started
NoWriteSince(i) == relations = trav[i].started

\* C15: getAccessibleCompanyIds(root) is a pure read: a step of a call
\* changes no stored state; a call that finished with no relation write
\* since it started returns the set the traversal returns when run alone on
\* that table, however it interleaved with the other call; hence two
\* finished calls from the same root with no write in between return the
\* same set.
C15_PureAndIsolated ==
  /\ [](\A i \in ConcCalls :
          (trav[i].status = "done" /\ NoWriteSince(i))
            => /\ \A ord \in RowOrders(relations) :
                    trav[i].result =
                      getAccessibleCompanyIds(relations, ord, trav[i].root)
               /\ \A j \in ConcCalls :
                    (/\ trav[j].status = "done"
                     /\ NoWriteSince(j)
                     /\ trav[j].root = trav[i].root)
                      => trav[j].result = trav[i].result)
  /\ [][trav' # trav
          => UNCHANGED <<relations, leaseTenants, users, properties, leases>>
       ]_vars

\* Call 2 started from A while call 1 from A was running and had visited
\* A, over a graph with a cycle; both finished with {A, B}
C15_Witness ==
  /\ HasCycle(relations)
  /\ trav[2].inFlight
  /\ \A i \in ConcCalls :
       /\ trav[i].status = "done"
       /\ trav[i].root = "A"
       /\ NoWriteSince(i)
       /\ trav[i].result = {"A", "B"}

----------------------------------------------------------------------------
(* Claims about cycles in the relation store, checked under SpecRel *)

\* C26: relation creation never rejects an edge for closing a cycle: a POST
\* by a writer with a percentage in range, both companies of the caller's
\* organization and a new total of at most 100 is answered 200 and inserts
\* the edge (the request has that outcome and no other), also when parent
\* equals child or the reverse edge is stored; graphs with cycles are
\* therefore reachable.
C26_CyclesAccepted ==
  \A u \in UserIds, p \in RelCompanies, c \in RelCompanies,
     pct \in PctInputs :
    (/\ canWrite(users[u])
     /\ pct >= 1 /\ pct <= 10000
     /\ getCompany(p, users[u].organizationId) # NULL
     /\ getCompany(c, users[u].organizationId) # NULL
     /\ ~newTotalExceeds100(relations, c, pct)
     /\ FreeRelIds(relations) # {})
      => /\ ENABLED PostCompanyRelation(u, p, c, pct)
         /\ ~ENABLED (/\ PostCompanyRelation(u, p, c, pct)
                      /\ ~(/\ resp'.status = 200
                           /\ \E r \in relations' \ relations :
                                /\ r.parentCompanyId = p
                                /\ r.childCompanyId = c
                                /\ r.ownershipPercentage = pct))

\* B -> A was accepted after A -> B: the store holds the cycle A -> B -> A
C26_Witness ==
  /\ resp = [op |-> "POST relation", status |-> 200]
  /\ {<<r.parentCompanyId, r.childCompanyId>> : r \in relations}
       = {<<"A", "B">>, <<"B", "A">>}

ForeignRelations(u) ==
  {r \in relations : CompanyOrg[r.parentCompanyId] # users[u].organizationId}

\* C22: a request by a user of organization X never modifies or deletes a
\* CompanyRelation whose companies belong to another organization Y: a PUT or
\* DELETE /api/company-relations/:id by that user leaves the relations of
\* organization Y as they were.
C22_RelationsIsolated ==
  [][\A u \in UserIds :
       (\/ \E id \in 1..MaxRel, pct \in PctInputs :
             PutCompanyRelation(u, id, pct)
        \/ \E id \in 1..MaxRel : DeleteCompanyRelation(u, id))
         => \A r \in ForeignRelations(u) : r \in relations']_vars

----------------------------------------------------------------------------
(* Claims about the two checks of createLeaseTenant, checked under
   SpecCreate *)

\* C30: in createLeaseTenant the active-exclusivity check is never the check
\* that rejects: for every today not later than 2099-12-31, every store and
\* every candidate, whenever the candidate's period and an existing
\* tenancy's period of the same lease both contain today the overlap check
\* has failed, so the outcome is never "active" and is the outcome of the
\* overlap check alone.
C30_ActiveCheckRedundant ==
  (resp.op = "createLeaseTenant" /\ resp.today.day <= Date2099)
    => LET existingTenants == {t \in leaseTenants : t.leaseId = resp.leaseId}
       IN /\ (/\ isCurrentContract(resp.periodStart, resp.periodEnd,
                                    resp.today)
              /\ \E t \in existingTenants :
                   isCurrentContract(t.periodStart, t.periodEnd, resp.today))
               => resp.outcome = "overlap"
          /\ resp.outcome # "active"
          /\ resp.outcome =
               IF \E t \in existingTenants :
                    periodsOverlap(resp.periodStart, resp.periodEnd, t)
               THEN "overlap" ELSE "ok"

\* An open-ended candidate from day 2 on a lease with an open-ended tenancy
\* from day 1, both active today (day 2): rejected by the overlap check
C30_Witness ==
  /\ resp.op = "createLeaseTenant"
  /\ resp.leaseId = "L1"
  /\ resp.periodStart = 2 /\ resp.periodEnd = NullDate
  /\ resp.today = [day |-> 2, midnight |-> FALSE]
  /\ \E t \in leaseTenants : t.periodStart = 1 /\ t.periodEnd = NullDate
  /\ resp.outcome = "overlap"

----------------------------------------------------------------------------
(* Claims about concurrent relation creation, checked under SpecRelRace *)

\* C24: relation creation is a read-then-write that is not atomic: a
\* request is answered 200 and its relation committed exactly when the
\* incoming sum it read plus its percentage is at most 100, whatever other
\* requests inserted between its read and its insert; so two requests for
\* one child that both read before either inserts are both committed and
\* the incoming sum can exceed 100.
C24_CreateIsReadThenWrite ==
  \A i \in RaceCalls :
    (trav[i].pc = "done" /\ trav[i].status \in {200, 400}
       /\ trav[i].pct >= 1 /\ trav[i].pct <= 10000)
      => /\ trav[i].status = 200
              <=> IncomingSum(trav[i].existingParentRelations,
                              trav[i].childCompanyId) + trav[i].pct <= 10000
         /\ trav[i].status = 200
              => \E r \in relations :
                   /\ r.parentCompanyId = trav[i].parentCompanyId
                   /\ r.childCompanyId = trav[i].childCompanyId
                   /\ r.ownershipPercentage = trav[i].pct

\* Two requests of 60% for child B, each read an empty set of parents, both
\* answered 200: the incoming sum of B is 120%
C24_Witness ==
  /\ \A i \in RaceCalls :
       /\ trav[i].pc = "done"
       /\ trav[i].status = 200
       /\ trav[i].childCompanyId = "B"
       /\ trav[i].pct = 6000
       /\ trav[i].existingParentRelations = {}
  /\ IncomingSum(relations, "B") = 12000

----------------------------------------------------------------------------
(* Claims about concurrent tenancy creation, checked under SpecLTRace *)

\* C25: tenancy creation is a read-then-write that is not atomic: a call
\* inserts its tenancy exactly when the checks pass over the tenancies it
\* selected, whatever other calls inserted between its select and its
\* insert; so two calls for one lease with overlapping periods that both
\* select before either inserts are both inserted, with no update involved.
C25_CreateTenancyIsReadThenWrite ==
  /\ \A i \in RaceCalls :
       trav[i].pc = "done"
         => /\ trav[i].outcome =
                 createLeaseTenantCheck(trav[i].existingTenants,
                   trav[i].leaseId, trav[i].periodStart, trav[i].periodEnd,
                   RaceToday)
            /\ trav[i].outcome = "ok"
                 => \E t \in leaseTenants :
                      /\ t.leaseId = trav[i].leaseId
                      /\ t.periodStart = trav[i].periodStart
                      /\ t.periodEnd = trav[i].periodEnd
  /\ Cardinality(leaseTenants) =
       Cardinality({i \in RaceCalls :
                      trav[i].pc = "done" /\ trav[i].outcome = "ok"})

\* Two calls for lease L1, periods [1, 2] and [2, open], each selected no
\* tenancy and both inserted: two overlapping tenancies on L1
C25_Witness ==
  /\ \A i \in RaceCalls :
       /\ trav[i].pc = "done"
       /\ trav[i].outcome = "ok"
       /\ trav[i].leaseId = "L1"
       /\ trav[i].existingTenants = {}
  /\ trav[1].periodStart = 1 /\ trav[1].periodEnd = 2
  /\ trav[2].periodStart = 2 /\ trav[2].periodEnd = NullDate
  /\ \E a, b \in leaseTenants :
       /\ a.id # b.id
       /\ a.leaseId = b.leaseId
       /\ OverlapOpenEnded(a.periodStart, a.periodEnd,
                           b.periodStart, b.periodEnd)

----------------------------------------------------------------------------
(* Claims about the weighted lease statistics, checked under SpecStats *)

\* The leases of the user's organization whose property has an owner of
\* weight > 0 from the user's root company
PositiveLeases(u) ==
  {l \in leases :
     /\ l.organizationId = users[u].organizationId
     /\ \E p \in OwnedProperties(u) :
          p.id = l.propertyId /\ WeightOf(u, p) > 0}

\* The weight of the owner of the property of lease l
LeaseWeightOf(u, l) ==
  WeightOf(u, CHOOSE p \in OwnedProperties(u) : p.id = l.propertyId)

----------------------------------------------------------------------------
(* Claims about the bound of the ownership weight, checked under SpecRound *)

\* C28: if the relation graph is acyclic and the incoming percentages of
\* every company sum to at most 100, then calculateOwnershipFromRoot(root,
\* target) is at most 1.0 for every root and target (and so no weighted
\* count or value exceeds the unweighted one).
C28_WeightAtMostOne ==
  (/\ resp.op = "calculateOwnershipFromRoot"
   /\ ~HasCycle(relations)
   /\ \A c \in Companies : IncomingSum(relations, c) <= 10000)
  => ~ownershipAboveOne(resp.root, resp.target, relations)

----------------------------------------------------------------------------
(* Claims about the tenant data a broker receives, checked under SpecAnon *)

\* C21: every response to a broker that carries tenant data (GET
\* /api/tenants, /api/tenants/:id, /api/leases/:leaseId/tenants and
\* /api/all-lease-tenants) contains only the anonymized projection of each
\* tenant: the response is the same for two stores that differ only in the
\* tenants' name, CVR number, contact person, phone and notes.
C21_BrokerSeesOnlyProjection ==
  (/\ resp.op \in {"GET /api/tenants", "GET /api/tenants/:id",
                   "GET /api/leases/:leaseId/tenants",
                   "GET /api/all-lease-tenants"}
   /\ isBroker(users[resp.user]))
  => resp.a = resp.b

====
